---- MODULE Spec2Model ----
(***************************************************************************)
(* A model of the hierarchical state machine runtime of statemch.cpp:      *)
(* one StateMachine instance on top of one queue of one game object, the   *)
(* message router that schedules and routes its self-addressed messages,   *)
(* and the per-tick loop (clock, delayed delivery, manager update).        *)
(*                                                                         *)
(* The call stack of the C++ program is the variable stk: the runtime      *)
(* calls the user's States function, whose handler bodies call back into   *)
(* the runtime (ChangeState, SendMsg..., and, through an immediate send,   *)
(* a nested Process), so every call into user code is one frame.           *)
(***************************************************************************)
EXTENDS Integers, Sequences, FiniteSets, TLC

(***************************************************************************)
(* Program constants.                                                      *)
(***************************************************************************)
MAX_STATE_STACK_SIZE == 10

SAFETY_COUNT == 20

ONE_FRAME == 1

(***************************************************************************)
(* Bounds of the model.                                                    *)
(***************************************************************************)
MaxCalls == 3

MaxCallsPop == 4

MaxCallsFlip == 21

MaxCallsStack == 12

MaxCallsQueue == 3

MaxCallsTimer == 3

MaxTime == 2

(***************************************************************************)
(* The user's machine: three states, one substate, one message name.       *)
(***************************************************************************)
StateIds == {0, 1, 2}

SubstateIds == {0}

Delays == {1, 2}

(* The delays handlers pass to SetTimer* and SendMsgDelayedTo*, in frames. *)
TimerDelays == {0, 1}

(* The message name the user's machine uses with each SetTimer* call. *)
TimerNames == {"MSG_TimerSubstate", "MSG_TimerState", "MSG_TimerStateMachine"}

VarIds == {0, 1}

(* The queues of a manager and the values of StateMachineQueue that are   *)
(* not a queue: all queues, and no queue.                                  *)
STATE_MACHINE_NUM_QUEUES == 3

STATE_MACHINE_QUEUE_ALL == 4

STATE_MACHINE_QUEUE_NULL == 5

QueueIds == 0..(STATE_MACHINE_NUM_QUEUES - 1)

(* The most events the manager specification hands to one machine, and the *)
(* most machines it starts a queue with.                                   *)
MaxEvents == 2

MaxQueueLen == 2

(* The agents of the registry: the owner of the machine and three others. *)
OwnerId == 0

AgentIds == {0, 1, 2, 3}

AgentTypes == {"NPC", "Player"}

(* The type each agent registered with: the owner and agents 1 and 2 are   *)
(* NPCs, agent 3 is a player.                                              *)
TypeOf(id) == IF id = 3 THEN "Player" ELSE "NPC"

(* The longest broadcast list the handlers build. *)
MaxBroadcastList == 3

(* The calls of the reset specification. *)
MaxCallsReset == 4

(* Calls the handlers may make where machine changes are requested over   *)
(* and over: one more than the manager's safety count.                     *)
MaxCallsRequests == 21

(* The calls of the broadcast specification. *)
MaxCallsBroadcast == 4

(* The machine the game object is created with, and the machines its       *)
(* handlers may create.                                                    *)
DefaultMachine == "Default"

NewMachines == {"A", "C"}

NO_SUBSTATE == -1

GLOBAL == -1

(* The handlers the user's States function declares for (state, substate). *)
(* -1 for the state is the global scope, -1 for the substate is the state  *)
(* scope.                                                                  *)
Declared(s, ss) ==
    IF s = GLOBAL THEN {}
    ELSE IF ss = NO_SUBSTATE
         THEN CASE s = 0 -> {"Enter", "Exit"}
                [] s = 1 -> {"Enter", "Exit", "Update"}
                [] OTHER -> {"Exit"}
         ELSE CASE s = 1 -> {"Enter", "Exit", "Update"}
                [] OTHER -> {"Exit"}

VARIABLES
    m,        \* the fields of the StateMachine object
    marked,   \* GameObject::IsMarkedForDeletion of the owner
    msgs,     \* the router's delayed messages, in insertion order
    now,      \* g_time.GetCurTime(), in frames
    phase,    \* position in the per-tick loop: "deliver" | "update", or
              \* "crashed" after a use of a deleted machine
    mgrChange,\* m_stateMachineChange[queue] of the manager
    newStateMachine, \* m_newStateMachine[queue] of the manager
    list,     \* m_stateMachineList[queue]: the machines, default first, top last
    resets,   \* the machines of the list that Reset has been called on
    stk,      \* the call stack, innermost call last
    calls,    \* how many calls of the runtime's API the handlers may still make
    op,       \* the runtime call this step made
    last,     \* the event most recently dispatched to the machine
    dlv,      \* the delayed message the router routed in this step, if any
    queues    \* m_stateMachineList of the manager, as the number of events
              \* each machine of each queue was handed (bottom first); only
              \* the specification of the manager's dispatch changes it

vars ==
    <<m, marked, msgs, now, phase, mgrChange, newStateMachine, list, resets,
      stk, calls, op, last, dlv, queues>>

(***************************************************************************)
(* StateMachine: construction and the transition requests.                 *)
(***************************************************************************)
Initialize ==
    [ scopeState |-> 0, scopeSubstate |-> 0,
      currentState |-> 0, currentSubstate |-> NO_SUBSTATE,
      stateChange |-> "NO_STATE_CHANGE", nextState |-> 0, nextSubstate |-> 0,
      delayedStateChangeQueued |-> FALSE, delayedSubstateChangeQueued |-> FALSE,
      stateChangeAllowed |-> TRUE, registeredEvents |-> {},
      timeOnEnterState |-> 0, timeOnEnterSubstate |-> 0,
      stack |-> <<>>, stateVariables |-> <<>>, substateVariables |-> <<>>,
      ccMessagesToGameObject |-> 0, broadcastList |-> <<>> ]

ChangeStateAtOnce(mch, newState) ==
    IF mch.stateChangeAllowed
    THEN [mch EXCEPT !.stateChange = "STATE_CHANGE",
                     !.nextState = newState,
                     !.nextSubstate = NO_SUBSTATE,
                     !.currentState = newState]
    ELSE mch

ChangeState(mch, newState) ==
    IF mch.stateChangeAllowed
    THEN [mch EXCEPT !.stateChange = "STATE_CHANGE",
                     !.nextState = newState,
                     !.nextSubstate = NO_SUBSTATE]
    ELSE mch

ChangeSubstate(mch, newSubstate) ==
    IF mch.stateChangeAllowed
    THEN [mch EXCEPT !.stateChange = "STATE_CHANGE",
                     !.nextState = mch.currentState,
                     !.nextSubstate = newSubstate]
    ELSE mch

PopState(mch) ==
    IF mch.stateChangeAllowed
    THEN [mch EXCEPT !.stateChange = "STATE_POP"]
    ELSE mch

(* DeclareVariable pushes one default slot (value 0) when id is not yet a  *)
(* valid index of the scope's vector.                                      *)
DeclareVariable(mch, id, scope) ==
    IF scope = "STATE_VARIABLE_SCOPE" /\ Len(mch.stateVariables) <= id
    THEN [mch EXCEPT !.stateVariables = Append(@, 0)]
    ELSE IF scope = "SUBSTATE_VARIABLE_SCOPE" /\ Len(mch.substateVariables) <= id
         THEN [mch EXCEPT !.substateVariables = Append(@, 0)]
         ELSE mch

(***************************************************************************)
(* StateMachine::PerformStateChanges, one loop iteration in pieces: the    *)
(* pieces are separated by the calls into the user's States function.      *)
(***************************************************************************)
RegisteredBit(e, level) ==
    CASE e = "Enter" -> "ENTER_" \o level
      [] e = "Exit" -> "EXIT_" \o level
      [] OTHER -> "UPDATE_" \o level

REGISTERED_EVENT_SUBSTATE == {"ENTER_SUBSTATE", "EXIT_SUBSTATE", "UPDATE_SUBSTATE"}

REGISTERED_EVENT_STATE == {"ENTER_STATE", "EXIT_STATE", "UPDATE_STATE"}

REGISTERED_EVENT_STATEMACHINE ==
    {"ENTER_STATEMACHINE", "EXIT_STATEMACHINE", "UPDATE_STATEMACHINE"}

REGISTERED_EVENT_UPDATE == {"UPDATE_SUBSTATE", "UPDATE_STATE", "UPDATE_STATEMACHINE"}

(* Lines 185-188: the head of an iteration. *)
BeginStateChange(mch) ==
    [mch EXCEPT !.stateChangeAllowed = FALSE,
                !.delayedStateChangeQueued = FALSE,
                !.delayedSubstateChangeQueued = FALSE]

(* Line 191 and line 195: whether an Exit event is sent. *)
ExitSubstateDue(mch) ==
    mch.currentSubstate >= 0 /\ "EXIT_SUBSTATE" \in mch.registeredEvents

ExitStateDue(mch) ==
    mch.nextSubstate < 0 /\ "EXIT_STATE" \in mch.registeredEvents

PushStackUnbounded(st, s) == Append(st, s)

(* Lines 208-212: push_back, then pop_front when the size exceeds the limit. *)
PushStack(st, s) ==
    LET a == Append(st, s)
    IN  IF Len(a) > MAX_STATE_STACK_SIZE THEN Tail(a) ELSE a

(* Lines 202-239: the switch on m_stateChange. *)
SwitchStateChange(mch) ==
    CASE mch.stateChange = "STATE_CHANGE" ->
            [mch EXCEPT !.stack = IF mch.nextSubstate < 0
                                  THEN PushStack(@, mch.currentState) ELSE @,
                        !.currentState = mch.nextState,
                        !.currentSubstate = mch.nextSubstate]
      [] mch.stateChange = "STATE_POP" ->
            IF mch.stack # <<>>
            THEN [mch EXCEPT !.currentState = mch.stack[Len(mch.stack)],
                             !.currentSubstate = NO_SUBSTATE,
                             !.stack = SubSeq(@, 1, Len(@) - 1)]
            ELSE mch
      [] OTHER -> mch

FinishKeepingSubstateVariables(mch, t) ==
    LET stateLevel == mch.nextSubstate < 0
    IN  [mch EXCEPT !.scopeSubstate = @ + 1,
                    !.scopeState = IF stateLevel THEN @ + 1 ELSE @,
                    !.substateVariables = @,
                    !.stateVariables = IF stateLevel THEN <<>> ELSE @,
                    !.timeOnEnterSubstate = t,
                    !.timeOnEnterState = IF stateLevel THEN t ELSE @,
                    !.stateChange = "NO_STATE_CHANGE",
                    !.stateChangeAllowed = TRUE,
                    !.registeredEvents =
                        IF stateLevel
                        THEN @ \cap REGISTERED_EVENT_STATEMACHINE
                        ELSE @ \cap (REGISTERED_EVENT_STATE
                                     \cup REGISTERED_EVENT_STATEMACHINE)]

FinishAsStateLevel(mch, t) ==
    LET stateLevel == TRUE
    IN  [mch EXCEPT !.scopeSubstate = @ + 1,
                    !.scopeState = IF stateLevel THEN @ + 1 ELSE @,
                    !.substateVariables = <<>>,
                    !.stateVariables = IF stateLevel THEN <<>> ELSE @,
                    !.timeOnEnterSubstate = t,
                    !.timeOnEnterState = IF stateLevel THEN t ELSE @,
                    !.stateChange = "NO_STATE_CHANGE",
                    !.stateChangeAllowed = TRUE,
                    !.registeredEvents =
                        IF stateLevel
                        THEN @ \cap REGISTERED_EVENT_STATEMACHINE
                        ELSE @ \cap (REGISTERED_EVENT_STATE
                                     \cup REGISTERED_EVENT_STATEMACHINE)]

(* Lines 241-270: scope, variables, entry times, flags, registered events. *)
FinishStateChange(mch, t) ==
    LET stateLevel == mch.nextSubstate < 0
    IN  [mch EXCEPT !.scopeSubstate = @ + 1,
                    !.scopeState = IF stateLevel THEN @ + 1 ELSE @,
                    !.substateVariables = <<>>,
                    !.stateVariables = IF stateLevel THEN <<>> ELSE @,
                    !.timeOnEnterSubstate = t,
                    !.timeOnEnterState = IF stateLevel THEN t ELSE @,
                    !.stateChange = "NO_STATE_CHANGE",
                    !.stateChangeAllowed = TRUE,
                    !.registeredEvents =
                        IF stateLevel
                        THEN @ \cap REGISTERED_EVENT_STATEMACHINE
                        ELSE @ \cap (REGISTERED_EVENT_STATE
                                     \cup REGISTERED_EVENT_STATEMACHINE)]

(* Lines 273-286: whether the Enter event is sent after the Probe. *)
EnterDue(mch) ==
    IF mch.nextSubstate < 0
    THEN "ENTER_STATE" \in mch.registeredEvents
    ELSE "ENTER_SUBSTATE" \in mch.registeredEvents

(***************************************************************************)
(* The user's States function on a Probe event: it runs no handler body    *)
(* and registers the handlers declared for the queried scope.              *)
(***************************************************************************)
Level(s, ss) ==
    IF s = GLOBAL THEN "STATEMACHINE"
    ELSE IF ss = NO_SUBSTATE THEN "STATE" ELSE "SUBSTATE"

Probe(mch, s, ss) ==
    [mch EXCEPT !.registeredEvents =
        @ \cup {RegisteredBit(e, Level(s, ss)) : e \in Declared(s, ss)}]

(***************************************************************************)
(* Sending to oneself: the scope value is captured at the call.            *)
(***************************************************************************)
SendMsgWithNextScope(mch, delay, name, rule, data, timer) ==
    [ delay |-> delay, name |-> name, rule |-> rule,
      scope |-> IF rule = "SCOPE_TO_SUBSTATE" THEN mch.scopeSubstate
                ELSE IF rule = "SCOPE_TO_STATE"
                     THEN IF mch.stateChange = "STATE_CHANGE" /\ mch.nextSubstate < 0
                          THEN mch.scopeState + 1 ELSE mch.scopeState
                     ELSE 0,
      data |-> data, timer |-> timer ]

SendMsgWithStateScope(mch, delay, name, rule, data, timer) ==
    [ delay |-> delay, name |-> name, rule |-> rule,
      scope |-> IF rule \in {"SCOPE_TO_SUBSTATE", "SCOPE_TO_STATE"}
                THEN mch.scopeState ELSE 0,
      data |-> data, timer |-> timer ]

SendMsgDelayedToMeHelper(mch, delay, name, rule, data, timer) ==
    [ delay |-> delay, name |-> name, rule |-> rule,
      scope |-> IF rule = "SCOPE_TO_SUBSTATE" THEN mch.scopeSubstate
                ELSE IF rule = "SCOPE_TO_STATE" THEN mch.scopeState
                ELSE 0,
      data |-> data, timer |-> timer ]

(* Lines 869-872, 892-895, 915-918: the minimum delay of a timer. *)
AtLeastOneFrame(delay) == IF delay < ONE_FRAME THEN ONE_FRAME ELSE delay

(* Lines 866-876. *)
SetTimerSubstate(mch, delay, name) ==
    SendMsgDelayedToMeHelper(mch, AtLeastOneFrame(delay), name, "SCOPE_TO_SUBSTATE",
                             AtLeastOneFrame(delay), TRUE)

(* Lines 889-899: the rule passed is SCOPE_TO_SUBSTATE. *)
SetTimerState(mch, delay, name) ==
    SendMsgDelayedToMeHelper(mch, AtLeastOneFrame(delay), name, "SCOPE_TO_SUBSTATE",
                             AtLeastOneFrame(delay), TRUE)

(* Lines 911-922. *)
SetTimerStateMachine(mch, delay, name) ==
    SendMsgDelayedToMeHelper(mch, AtLeastOneFrame(delay), name,
                             "SCOPE_TO_STATE_MACHINE", AtLeastOneFrame(delay), TRUE)

(* Lines 935-939: the router's call that sends the timer again; the delay  *)
(* is the one the message carries as its data.                             *)
SetTimerExternal(mch, delay, name, rule) ==
    SendMsgDelayedToMeHelper(mch, delay, name, rule, delay, TRUE)

(* Lines 794-799 and 818-823: the entries of the broadcast list that get a *)
(* copy, in order; the owner's own id is skipped.                          *)
BroadcastToAll(bl, owner) == bl

BroadcastToList(bl, owner) == SelectSeq(bl, LAMBDA id : id # owner)

(* The router's SendMsgBroadcast: one copy for every agent of the type in  *)
(* the registry, the sender excluded, in the order of the ids.             *)
RECURSIVE InOrder(_, _)
InOrder(ids, n) ==
    IF n > 3 THEN <<>>
    ELSE (IF n \in ids THEN <<n>> ELSE <<>>) \o InOrder(ids, n + 1)

SendMsgBroadcast(sender, type) ==
    InOrder({id \in AgentIds : TypeOf(id) = type /\ id # sender}, 0)

(***************************************************************************)
(* The message router (msgroute): delayed messages wait in msgs, a message *)
(* is valid at delivery when its scope rule still matches the machine on   *)
(* top of the queue, and a purge removes the scoped messages.              *)
(***************************************************************************)
ScopeValid(msg, mch) ==
    CASE msg.rule = "SCOPE_TO_SUBSTATE" -> msg.scope = mch.scopeSubstate
      [] msg.rule = "SCOPE_TO_STATE" -> msg.scope = mch.scopeState
      [] OTHER -> TRUE

PurgeScopedMsg(ms) ==
    SelectSeq(ms, LAMBDA x : x.rule = "SCOPE_TO_STATE_MACHINE")

Due(ms, t) == {i \in 1..Len(ms) : ms[i].at <= t}

FirstDue(ms, t) == CHOOSE i \in Due(ms, t) : \A j \in Due(ms, t) : i <= j

RemoveAt(ms, i) == SubSeq(ms, 1, i - 1) \o SubSeq(ms, i + 1, Len(ms))

(* RemoveMsg(name, receiver, sender, timer) of StopTimer: the pending      *)
(* self-addressed messages of that name are removed.                       *)
RemoveMsg(ms, name) == SelectSeq(ms, LAMBDA x : x.name # name)

Back(l) == l[Len(l)]

Front(l) == SubSeq(l, 1, Len(l) - 1)

(* A delayed message as the router stores it: the message, its delivery    *)
(* time, and the history the claims need.  pendingState: the state B of    *)
(* the ChangeState(B) that the sending handler (req: it made an accepted   *)
(* request) had pending at the send, or -1; applied: the machine is in B   *)
(* by that request, with no other transition since the send; gAny: the     *)
(* state or the substate changed since the send; gState: the state changed *)
(* since the send; gOther: some transition since the send was not a        *)
(* substate-only change; sender: the machine that sent it, the one on top  *)
(* of the queue at the send.                                               *)
Stored(msg, mch, t, req, from) ==
    [ name |-> msg.name, rule |-> msg.rule, scope |-> msg.scope,
      sender |-> from,
      data |-> msg.data, timer |-> msg.timer, delay |-> msg.delay,
      at |-> t + msg.delay,
      pendingState |-> IF req /\ mch.stateChange = "STATE_CHANGE"
                              /\ mch.nextSubstate < 0
                       THEN mch.nextState ELSE -1,
      applied |-> FALSE, gAny |-> FALSE, gState |-> FALSE, gOther |-> FALSE ]

(* The history fields of the waiting messages, when the iteration of       *)
(* PerformStateChanges that starts from mch applies its change.            *)
Witnessed(ms, mch) ==
    LET change  == mch.stateChange = "STATE_CHANGE"
        pop     == mch.stateChange = "STATE_POP" /\ mch.stack # <<>>
        toState == change /\ mch.nextSubstate < 0
        subOnly == change /\ mch.nextSubstate >= 0
    IN  [i \in 1..Len(ms) |->
            [ms[i] EXCEPT !.gAny = @ \/ change \/ pop,
                          !.gState = @ \/ toState \/ pop,
                          !.gOther = @ \/ ~subOnly,
                          !.applied = /\ ~ms[i].gAny /\ ~ms[i].gOther
                                      /\ toState
                                      /\ mch.nextState = ms[i].pendingState]]

(***************************************************************************)
(* The call stack.                                                         *)
(***************************************************************************)
(* A frame: the function (k), the position in it (pc), its arguments (ev, *)
(* name, data), its local safetyCount (sc), and its history for the       *)
(* claims (by: who dispatched the handler; q: the queries Process made, or *)
(* the events the iteration of PerformStateChanges sent; s0, ss0: the      *)
(* state and substate at entry; req: the handler made a transition request *)
(* the runtime accepted).  In a frame of PerformStateChanges, name is the  *)
(* change the iteration applied when that was a pop, of a non-empty or of  *)
(* an empty stack.                                                         *)
Frame(k, pc) ==
    [ k |-> k, pc |-> pc, ev |-> "None", name |-> "None", data |-> 0,
      by |-> "None", sc |-> 0, q |-> <<>>, s0 |-> 0, ss0 |-> 0,
      req |-> FALSE ]

Top == stk[Len(stk)]

Rest == SubSeq(stk, 1, Len(stk) - 1)

Idle == stk = <<>>

Running(k) == stk # <<>> /\ Top.k = k

NoEvent == [ev |-> "None", s |-> 0, ss |-> 0]

NoDelivery == [name |-> "None"]

(* The dispatch history after an event ev sent for (s, ss). *)
Dispatch(ev, s, ss) == last' = [ev |-> ev, s |-> s, ss |-> ss]

NoDispatch == UNCHANGED last

(* The step is the runtime call name, and routes no delayed message. *)
Did(name) == op' = name /\ dlv' = NoDelivery

(* The step is a handler's call of the runtime's API. *)
Api(name) == Did(name) /\ calls' = calls - 1

(* StateMachine::Process, lines 139-148: nothing happens for an owner that *)
(* is marked for deletion; otherwise the ladder starts at the substate, if *)
(* there is one.                                                           *)
ProcessFrame(ev, name, data) ==
    [Frame("Process", IF m.currentSubstate >= 0 THEN "sub" ELSE "state")
        EXCEPT !.ev = ev, !.name = name, !.data = data,
               !.s0 = m.currentState, !.ss0 = m.currentSubstate]

CallProcess(base, ev, name, data) ==
    IF marked
    THEN stk' = base /\ NoDispatch
    ELSE /\ stk' = Append(base, ProcessFrame(ev, name, data))
         /\ Dispatch(ev, m.currentState, m.currentSubstate)

(* The state after PushStateMachine of a new machine, whose handlers may   *)
(* make n calls.                                                           *)
Pushed(n) ==
    /\ m = Initialize
    /\ calls = n
    /\ marked = FALSE
    /\ msgs = <<>>
    /\ now = 0
    /\ phase = "deliver"
    /\ mgrChange = "NO_STATE_MACHINE_CHANGE"
    /\ newStateMachine = "None"
    /\ list = <<DefaultMachine>>
    /\ resets = {DefaultMachine}
    /\ stk = <<Frame("Reset", "probe")>>
    /\ op = "PushStateMachine"
    /\ last = NoEvent
    /\ dlv = NoDelivery
    /\ queues = [q \in QueueIds |-> IF q = 0 THEN <<0>> ELSE <<>>]

Init == Pushed(MaxCalls)

(***************************************************************************)
(* StateMachine::Reset, after Initialize: Process(Probe), Process(Enter).  *)
(***************************************************************************)
ResetProbe ==
    /\ Running("Reset") /\ Top.pc = "probe"
    /\ CallProcess(Append(Rest, [Top EXCEPT !.pc = "enter"]), "Probe", "None", 0)
    /\ Did("ResetProbe")
    /\ UNCHANGED <<queues, m, marked, msgs, now, phase, mgrChange, calls, list,
                 newStateMachine, resets>>

ResetEnter ==
    /\ Running("Reset") /\ Top.pc = "enter"
    /\ CallProcess(Rest, "Enter", "None", 0)
    /\ Did("ResetEnter")
    /\ UNCHANGED <<queues, m, marked, msgs, now, phase, mgrChange, calls, list,
                 newStateMachine, resets>>

(***************************************************************************)
(* StateMachine::Process, lines 147-159: one query of the ladder per step. *)
(***************************************************************************)
QueryOf(pc) ==
    CASE pc = "sub" -> [s |-> m.currentState, ss |-> m.currentSubstate]
      [] pc = "state" -> [s |-> m.currentState, ss |-> NO_SUBSTATE]
      [] OTHER -> [s |-> GLOBAL, ss |-> NO_SUBSTATE]

NextLevelSkippingState(pc) ==
    CASE pc = "sub" -> "global"
      [] pc = "state" -> "global"
      [] OTHER -> "psc"

NextLevel(pc) ==
    CASE pc = "sub" -> "state"
      [] pc = "state" -> "global"
      [] OTHER -> "psc"

(* The frame of Process or Update after States returned handled = h. *)
Asked(f, h) ==
    [f EXCEPT !.q = Append(@, [s |-> QueryOf(f.pc).s, ss |-> QueryOf(f.pc).ss,
                               h |-> h]),
              !.pc = IF h THEN "psc" ELSE NextLevel(f.pc)]

(* The frame of a handler body of the user's States function. *)
HandlerFrame(ev, name, data, s, ss, by) ==
    [Frame("H", "body") EXCEPT !.ev = ev, !.by = by]

(* States(ev, msg, s, ss) for Enter, Exit and Update: the body runs, and   *)
(* the call returns true, exactly when the handler is declared.            *)
CallStates(base, f, ev, s, ss, by) ==
    IF ev \in Declared(s, ss)
    THEN stk' = base \o <<Asked(f, TRUE), HandlerFrame(ev, "None", 0, s, ss, by)>>
    ELSE stk' = Append(base, Asked(f, FALSE))

DelayedChangeNames == {"MSG_CHANGE_STATE_DELAYED", "MSG_CHANGE_SUBSTATE_DELAYED"}

ProcessQuery ==
    /\ Running("Process") /\ Top.pc \in {"sub", "state", "global"}
    /\ LET f == Top
           qy == QueryOf(Top.pc)
       IN  \/ /\ f.ev = "Probe"
              /\ m' = Probe(m, qy.s, qy.ss)
              /\ stk' = Append(Rest, Asked(f, TRUE))
           \/ /\ f.ev = "Enter"
              /\ CallStates(Rest, f, "Enter", qy.s, qy.ss, "Process")
              /\ m' = m
           \/ /\ f.ev = "Message" /\ f.name \in DelayedChangeNames
              /\ IF qy.s = GLOBAL
                 THEN /\ m' = IF f.name = "MSG_CHANGE_STATE_DELAYED"
                               THEN ChangeState(m, f.data)
                               ELSE ChangeSubstate(m, f.data)
                      /\ stk' = Append(Rest, Asked(f, TRUE))
                 ELSE /\ m' = m
                      /\ stk' = Append(Rest, Asked(f, FALSE))
           \/ /\ f.ev = "Message" /\ f.name \notin DelayedChangeNames
              /\ m' = m
              /\ \E h \in BOOLEAN :
                    stk' = IF h
                           THEN Rest \o <<Asked(f, TRUE),
                                          HandlerFrame("Message", f.name, f.data,
                                                       qy.s, qy.ss, "Process")>>
                           ELSE Append(Rest, Asked(f, FALSE))
    /\ Did("States")
    /\ UNCHANGED <<queues, marked, msgs, now, phase, mgrChange, calls, last, list,
                 newStateMachine, resets>>

(* Line 161 of Process and line 119 of Update: the call of                 *)
(* PerformStateChanges that ends them.                                     *)
CallPerformStateChanges ==
    /\ stk # <<>> /\ Top.k \in {"Process", "Update"} /\ Top.pc = "psc"
    /\ stk' = Append(Rest, [Frame("PSC", "while") EXCEPT !.sc = SAFETY_COUNT])
    /\ Did("PerformStateChanges")
    /\ UNCHANGED <<queues, m, marked, msgs, now, phase, mgrChange, calls, last,
                 list, newStateMachine, resets>>

(***************************************************************************)
(* StateMachine::PerformStateChanges, lines 177-289.                       *)
(***************************************************************************)
LoopAgainOnce(mch, sc) == mch.stateChange # "NO_STATE_CHANGE" /\ sc = SAFETY_COUNT

LoopAgainUnbounded(mch, sc) == mch.stateChange # "NO_STATE_CHANGE"

(* Line 181: the loop test.  When it fails the call returns. *)
LoopAgain(mch, sc) == mch.stateChange # "NO_STATE_CHANGE" /\ sc - 1 >= 0

PerformStateChangesLoop ==
    /\ Running("PSC") /\ Top.pc = "while"
    /\ IF LoopAgain(m, Top.sc)
       THEN /\ m' = BeginStateChange(m)
            /\ stk' = Append(Rest, [Top EXCEPT !.sc = @ - 1, !.pc = "exitSubstate",
                                               !.q = <<>>, !.name = "None"])
       ELSE /\ m' = m
            /\ stk' = Rest
    /\ Did("PerformStateChangesLoop")
    /\ UNCHANGED <<queues, marked, msgs, now, phase, mgrChange, calls, last, list,
                 newStateMachine, resets>>

(* Lines 191-194. *)
ExitSubstate ==
    /\ Running("PSC") /\ Top.pc = "exitSubstate"
    /\ LET f == [Top EXCEPT !.pc = "exitState"]
           g == [f EXCEPT !.q = Append(@, "ExitSubstate")]
       IN  IF ExitSubstateDue(m)
           THEN /\ Dispatch("Exit", m.currentState, m.currentSubstate)
                /\ stk' = IF "Exit" \in Declared(m.currentState, m.currentSubstate)
                          THEN Rest \o <<g, HandlerFrame("Exit", "None", 0,
                                             m.currentState, m.currentSubstate, "PSC")>>
                          ELSE Append(Rest, g)
           ELSE /\ NoDispatch
                /\ stk' = Append(Rest, f)
    /\ Did("ExitSubstate")
    /\ UNCHANGED <<queues, m, marked, msgs, now, phase, mgrChange, calls, list,
                 newStateMachine, resets>>

(* Lines 195-198. *)
ExitState ==
    /\ Running("PSC") /\ Top.pc = "exitState"
    /\ LET f == [Top EXCEPT !.pc = "change"]
           g == [f EXCEPT !.q = Append(@, "ExitState")]
       IN  IF ExitStateDue(m)
           THEN /\ Dispatch("Exit", m.currentState, NO_SUBSTATE)
                /\ stk' = IF "Exit" \in Declared(m.currentState, NO_SUBSTATE)
                          THEN Rest \o <<g, HandlerFrame("Exit", "None", 0,
                                             m.currentState, NO_SUBSTATE, "PSC")>>
                          ELSE Append(Rest, g)
           ELSE /\ NoDispatch
                /\ stk' = Append(Rest, f)
    /\ Did("ExitState")
    /\ UNCHANGED <<queues, m, marked, msgs, now, phase, mgrChange, calls, list,
                 newStateMachine, resets>>

(* The iteration pops a non-empty stack. *)
PopApplies(mch) == mch.stateChange = "STATE_POP" /\ mch.stack # <<>>

(* What the iteration applies, for the history of its frame. *)
Applied(mch) ==
    IF PopApplies(mch) THEN "STATE_POP"
    ELSE IF mch.stateChange = "STATE_POP" THEN "EMPTY_POP" ELSE "None"

(* Lines 202-272: the change itself, up to and including the Probe. *)
ApplyStateChange(mch, t) ==
    LET c == FinishStateChange(SwitchStateChange(mch), t)
    IN  Probe(c, c.currentState, c.currentSubstate)

PerformChangeWithoutProbe ==
    /\ Running("PSC") /\ Top.pc = "change"
    /\ m' = ApplyStateChange(m, now)
    /\ msgs' = Witnessed(msgs, m)
    /\ NoDispatch
    /\ stk' = Append(Rest, [Top EXCEPT !.pc = "enter"])
    /\ Did("PerformChange")
    /\ UNCHANGED <<queues, marked, now, phase, mgrChange, calls, list,
                 newStateMachine, resets>>

PerformChange ==
    /\ Running("PSC") /\ Top.pc = "change"
    /\ m' = ApplyStateChange(m, now)
    /\ msgs' = Witnessed(msgs, m)
    /\ Dispatch("Probe", m'.currentState, m'.currentSubstate)
    /\ stk' = Append(Rest, [Top EXCEPT !.pc = "enter", !.q = Append(@, "Probe"),
                                       !.name = Applied(m)])
    /\ Did("PerformChange")
    /\ UNCHANGED <<queues, marked, now, phase, mgrChange, calls, list,
                 newStateMachine, resets>>

(* Lines 273-286. *)
EnterNew ==
    /\ Running("PSC") /\ Top.pc = "enter"
    /\ LET f == [Top EXCEPT !.pc = "while"]
           g == [f EXCEPT !.q = Append(@, "Enter")]
       IN  IF EnterDue(m)
           THEN /\ Dispatch("Enter", m.currentState, m.currentSubstate)
                /\ stk' = IF "Enter" \in Declared(m.currentState, m.currentSubstate)
                          THEN Rest \o <<g, HandlerFrame("Enter", "None", 0,
                                             m.currentState, m.currentSubstate, "PSC")>>
                          ELSE Append(Rest, g)
           ELSE /\ NoDispatch
                /\ stk' = Append(Rest, f)
    /\ Did("EnterNew")
    /\ UNCHANGED <<queues, m, marked, msgs, now, phase, mgrChange, calls, list,
                 newStateMachine, resets>>

(***************************************************************************)
(* StateMachine::Update, lines 99-121.                                     *)
(***************************************************************************)
UpdateGateOpen(mch, pc) == TRUE

UpdateGate(mch, pc) ==
    CASE pc = "sub" -> mch.currentSubstate >= 0
                       /\ "UPDATE_SUBSTATE" \in mch.registeredEvents
      [] pc = "state" -> "UPDATE_STATE" \in mch.registeredEvents
      [] OTHER -> "UPDATE_STATEMACHINE" \in mch.registeredEvents

UpdateQuery ==
    /\ Running("Update") /\ Top.pc \in {"sub", "state", "global"}
    /\ LET qy == QueryOf(Top.pc)
       IN  IF UpdateGate(m, Top.pc)
           THEN CallStates(Rest, Top, "Update", qy.s, qy.ss, "Update")
           ELSE stk' = Append(Rest, [Top EXCEPT !.pc = NextLevel(@)])
    /\ Did("States")
    /\ UNCHANGED <<queues, m, marked, msgs, now, phase, mgrChange, calls, last,
                 list, newStateMachine, resets>>

(***************************************************************************)
(* The body of a handler: calls of the runtime's API, then the return.     *)
(* All the handlers of a behaviour together make at most MaxCalls calls.   *)
(* A request counts as made by the handler when the runtime accepted it.   *)
(***************************************************************************)
InHandler == Running("H") /\ calls > 0

Called(accepted) == Append(Rest, [Top EXCEPT !.req = @ \/ accepted])

(* The router's SendMsg for a self-addressed message with delay > 0. *)
RouterStore(msg) ==
    Append(msgs, Stored(msg, m, now, Top.req,
                        IF list # <<>> THEN Back(list) ELSE "None"))

HandlerChangeState ==
    /\ InHandler
    /\ \E s \in StateIds : m' = ChangeState(m, s)
    /\ stk' = Called(m.stateChangeAllowed)
    /\ Api("ChangeState")
    /\ UNCHANGED <<queues, marked, msgs, now, phase, mgrChange, last, list,
                 newStateMachine, resets>>

HandlerChangeSubstate ==
    /\ InHandler
    /\ \E ss \in SubstateIds : m' = ChangeSubstate(m, ss)
    /\ stk' = Called(m.stateChangeAllowed)
    /\ Api("ChangeSubstate")
    /\ UNCHANGED <<queues, marked, msgs, now, phase, mgrChange, last, list,
                 newStateMachine, resets>>

HandlerPopState ==
    /\ InHandler
    /\ m' = PopState(m)
    /\ stk' = Called(m.stateChangeAllowed)
    /\ Api("PopState")
    /\ UNCHANGED <<queues, marked, msgs, now, phase, mgrChange, last, list,
                 newStateMachine, resets>>

(* Lines 346-353: ChangeStateDelayed sends through SendMsgDelayedToState. *)
HandlerChangeStateDelayed ==
    /\ InHandler
    /\ \E d \in Delays, s \in StateIds :
          IF m.stateChangeAllowed
          THEN /\ m' = [m EXCEPT !.delayedStateChangeQueued = TRUE]
               /\ msgs' = RouterStore(SendMsgDelayedToMeHelper(m, d,
                              "MSG_CHANGE_STATE_DELAYED", "SCOPE_TO_STATE", s, FALSE))
          ELSE UNCHANGED <<queues, m, msgs>>
    /\ stk' = Called(FALSE)
    /\ Api("ChangeStateDelayed")
    /\ UNCHANGED <<queues, marked, now, phase, mgrChange, last, list,
                 newStateMachine, resets>>

(* Lines 365-372. *)
HandlerChangeSubstateDelayed ==
    /\ InHandler
    /\ \E d \in Delays, ss \in SubstateIds :
          IF m.stateChangeAllowed
          THEN /\ m' = [m EXCEPT !.delayedSubstateChangeQueued = TRUE]
               /\ msgs' = RouterStore(SendMsgDelayedToMeHelper(m, d,
                              "MSG_CHANGE_SUBSTATE_DELAYED", "SCOPE_TO_SUBSTATE", ss, FALSE))
          ELSE UNCHANGED <<queues, m, msgs>>
    /\ stk' = Called(FALSE)
    /\ Api("ChangeSubstateDelayed")
    /\ UNCHANGED <<queues, marked, now, phase, mgrChange, last, list,
                 newStateMachine, resets>>

(* Lines 444-447 and 463-466: SendMsgToSubstate and SendMsgToState. *)
HandlerSendMsgToSubstate ==
    /\ InHandler
    /\ msgs' = RouterStore(SendMsgDelayedToMeHelper(m, ONE_FRAME, "MSG_A",
                                "SCOPE_TO_SUBSTATE", 0, FALSE))
    /\ stk' = Called(FALSE)
    /\ Api("SendMsgToSubstate")
    /\ UNCHANGED <<queues, m, marked, now, phase, mgrChange, last, list,
                 newStateMachine, resets>>

HandlerSendMsgToState ==
    /\ InHandler
    /\ msgs' = RouterStore(SendMsgDelayedToMeHelper(m, ONE_FRAME, "MSG_A",
                                "SCOPE_TO_STATE", 0, FALSE))
    /\ stk' = Called(FALSE)
    /\ Api("SendMsgToState")
    /\ UNCHANGED <<queues, m, marked, now, phase, mgrChange, last, list,
                 newStateMachine, resets>>

(* Lines 482-485. *)
HandlerSendMsgToStateMachine ==
    /\ InHandler
    /\ msgs' = RouterStore(SendMsgDelayedToMeHelper(m, ONE_FRAME, "MSG_A",
                                "SCOPE_TO_STATE_MACHINE", 0, FALSE))
    /\ stk' = Called(FALSE)
    /\ Api("SendMsgToStateMachine")
    /\ UNCHANGED <<queues, m, marked, now, phase, mgrChange, last, list,
                 newStateMachine, resets>>

(* Lines 663-667: the delay is handed to the router as passed (the assert  *)
(* on delay > 0 is debug only); with delay 0 the router routes the message *)
(* at once, as for the Now calls.                                          *)
HandlerSendMsgDelayedToState ==
    /\ InHandler
    /\ \E d \in TimerDelays :
          LET msg == SendMsgDelayedToMeHelper(m, d, "MSG_A", "SCOPE_TO_STATE", 0, FALSE)
          IN  IF msg.delay > 0
              THEN /\ msgs' = RouterStore(msg)
                   /\ stk' = Called(FALSE)
                   /\ NoDispatch
              ELSE /\ msgs' = msgs
                   /\ CallProcess(stk, "Message", "MSG_A", 0)
    /\ Api("SendMsgDelayedToState")
    /\ UNCHANGED <<queues, m, marked, now, phase, mgrChange, list, newStateMachine, resets>>

HandlerSetTimerSubstate ==
    /\ InHandler
    /\ \E d \in TimerDelays :
          msgs' = RouterStore(SetTimerSubstate(m, d, "MSG_TimerSubstate"))
    /\ stk' = Called(FALSE)
    /\ Api("SetTimerSubstate")
    /\ UNCHANGED <<queues, m, marked, now, phase, mgrChange, last, list,
                 newStateMachine, resets>>

HandlerSetTimerState ==
    /\ InHandler
    /\ \E d \in TimerDelays :
          msgs' = RouterStore(SetTimerState(m, d, "MSG_TimerState"))
    /\ stk' = Called(FALSE)
    /\ Api("SetTimerState")
    /\ UNCHANGED <<queues, m, marked, now, phase, mgrChange, last, list,
                 newStateMachine, resets>>

HandlerSetTimerStateMachine ==
    /\ InHandler
    /\ \E d \in TimerDelays :
          msgs' = RouterStore(SetTimerStateMachine(m, d, "MSG_TimerStateMachine"))
    /\ stk' = Called(FALSE)
    /\ Api("SetTimerStateMachine")
    /\ UNCHANGED <<queues, m, marked, now, phase, mgrChange, last, list,
                 newStateMachine, resets>>

(* Lines 950-953.  A delivery of a timer of that name that is under way    *)
(* (the handler that calls StopTimer is the timer's own, or runs inside    *)
(* it) is noted in the router's frame.                                     *)
HandlerStopTimer ==
    /\ InHandler
    /\ \E name \in TimerNames :
          /\ msgs' = RemoveMsg(msgs, name)
          /\ stk' = [i \in 1..Len(stk) |->
                       IF stk[i].k = "Router" /\ stk[i].name = name
                       THEN [stk[i] EXCEPT !.req = TRUE] ELSE stk[i]]
          /\ op' = "StopTimer"
          /\ dlv' = [name |-> name]
    /\ calls' = calls - 1
    /\ UNCHANGED <<queues, m, marked, now, phase, mgrChange, last, list,
                 newStateMachine, resets>>

(* Lines 498-501: delay 0, which the router routes at once, so the machine *)
(* processes the message inside the handler that sends it.                 *)
HandlerSendMsgToStateMachineNow ==
    /\ InHandler
    /\ CallProcess(stk,
                   "Message", "MSG_A", 0)
    /\ Api("SendMsgToStateMachineNow")
    /\ UNCHANGED <<queues, m, marked, msgs, now, phase, mgrChange, list,
                 newStateMachine, resets>>

(* Lines 850-853. *)
HandlerBroadcastAddToList ==
    /\ InHandler
    /\ Len(m.broadcastList) < MaxBroadcastList
    /\ \E id \in AgentIds :
          m' = [m EXCEPT !.broadcastList = Append(@, id)]
    /\ stk' = Called(FALSE)
    /\ Api("BroadcastAddToList")
    /\ UNCHANGED <<queues, marked, msgs, now, phase, mgrChange, last, list,
                 newStateMachine, resets>>

(* Lines 836-839. *)
HandlerBroadcastClearList ==
    /\ InHandler
    /\ m' = [m EXCEPT !.broadcastList = <<>>]
    /\ stk' = Called(FALSE)
    /\ Api("BroadcastClearList")
    /\ UNCHANGED <<queues, marked, msgs, now, phase, mgrChange, last, list,
                 newStateMachine, resets>>

(* Lines 789-801 and 813-825: a copy goes to the router for every entry    *)
(* that passes the test, with delay ONE_FRAME or, for the Now form, 0; dlv *)
(* records the receivers of the copies.                                    *)
HandlerSendMsgBroadcastToList ==
    /\ InHandler
    /\ \E delay \in {0, ONE_FRAME} :
          /\ op' = IF delay = 0 THEN "SendMsgBroadcastToListNow"
                    ELSE "SendMsgBroadcastToList"
          /\ dlv' = [name |-> "MSG_A", sender |-> OwnerId, delay |-> delay,
                     to |-> BroadcastToList(m.broadcastList, OwnerId)]
    /\ stk' = Called(FALSE)
    /\ calls' = calls - 1
    /\ UNCHANGED <<queues, m, marked, msgs, now, phase, mgrChange, last, list,
                 newStateMachine, resets>>

(* Lines 773-777. *)
HandlerSendMsgBroadcastNow ==
    /\ InHandler
    /\ \E type \in AgentTypes :
          dlv' = [name |-> "MSG_A", sender |-> OwnerId, delay |-> 0,
                  type |-> type, to |-> SendMsgBroadcast(OwnerId, type)]
    /\ op' = "SendMsgBroadcastNow"
    /\ stk' = Called(FALSE)
    /\ calls' = calls - 1
    /\ UNCHANGED <<queues, m, marked, msgs, now, phase, mgrChange, last, list,
                 newStateMachine, resets>>

HandlerDeclareVariable ==
    /\ InHandler
    /\ \E id \in VarIds, scope \in {"STATE_VARIABLE_SCOPE", "SUBSTATE_VARIABLE_SCOPE"} :
          /\ m' = DeclareVariable(m, id, scope)
          /\ dlv' = [name |-> "None", id |-> id, scope |-> scope]
    /\ stk' = Called(FALSE)
    /\ op' = "DeclareVariable"
    /\ calls' = calls - 1
    /\ UNCHANGED <<queues, marked, msgs, now, phase, mgrChange, last, list,
                 newStateMachine, resets>>

(* Lines 1558-1564: the request is only recorded, over any earlier one. *)
RequestStateMachineChange(mch, change) ==
    /\ newStateMachine' = mch
    /\ mgrChange' = change

(* A machine a handler creates with new: one that is not in the list. *)
Fresh == NewMachines \ {list[i] : i \in 1..Len(list)}

(* Lines 1048-1051. *)
HandlerResetStateMachine ==
    /\ InHandler
    /\ RequestStateMachineChange("None", "STATE_MACHINE_RESET")
    /\ stk' = Called(FALSE)
    /\ Api("ResetStateMachine")
    /\ UNCHANGED <<queues, m, marked, msgs, now, phase, last, list, resets>>

(* Lines 1063-1066. *)
HandlerReplaceStateMachine ==
    /\ InHandler
    /\ \E x \in Fresh : RequestStateMachineChange(x, "STATE_MACHINE_REPLACE")
    /\ stk' = Called(FALSE)
    /\ Api("ReplaceStateMachine")
    /\ UNCHANGED <<queues, m, marked, msgs, now, phase, last, list, resets>>

(* Lines 1078-1081. *)
HandlerQueueStateMachine ==
    /\ InHandler
    /\ \E x \in Fresh : RequestStateMachineChange(x, "STATE_MACHINE_QUEUE")
    /\ stk' = Called(FALSE)
    /\ Api("QueueStateMachine")
    /\ UNCHANGED <<queues, m, marked, msgs, now, phase, last, list, resets>>

(* Lines 1093-1096. *)
HandlerRequeueStateMachine ==
    /\ InHandler
    /\ RequestStateMachineChange("None", "STATE_MACHINE_REQUEUE")
    /\ stk' = Called(FALSE)
    /\ Api("RequeueStateMachine")
    /\ UNCHANGED <<queues, m, marked, msgs, now, phase, last, list, resets>>

(* Lines 1109-1112. *)
HandlerPushStateMachine ==
    /\ InHandler
    /\ \E x \in Fresh : RequestStateMachineChange(x, "STATE_MACHINE_PUSH")
    /\ stk' = Called(FALSE)
    /\ Api("PushStateMachine")
    /\ UNCHANGED <<queues, m, marked, msgs, now, phase, last, list, resets>>

(* Lines 1124-1127. *)
HandlerPopStateMachine ==
    /\ InHandler
    /\ RequestStateMachineChange("None", "STATE_MACHINE_POP")
    /\ stk' = Called(FALSE)
    /\ Api("PopStateMachine")
    /\ UNCHANGED <<queues, m, marked, msgs, now, phase, last, list, resets>>

(* Lines 1138-1141 and 1733-1754: every machine of the queue is deleted at *)
(* once, the one whose handler is running included.  What that machine     *)
(* does from here on is a use of a deleted object: either its memory is    *)
(* still as it was and the handler goes on, or the program stops.          *)
HandlerDeleteStateMachineQueue ==
    /\ InHandler
    /\ list' = <<>>
    /\ resets' = {}
    /\ \/ stk' = Called(FALSE) /\ phase' = phase
       \/ stk' = <<>> /\ phase' = "crashed"
    /\ Api("DeleteStateMachineQueue")
    /\ UNCHANGED <<queues, m, marked, msgs, now, mgrChange, newStateMachine, last>>

(* The owner's MarkForDeletion, called by user code. *)
HandlerMarkForDeletion ==
    /\ InHandler /\ ~marked
    /\ marked' = TRUE
    /\ stk' = Called(FALSE)
    /\ Api("MarkForDeletion")
    /\ UNCHANGED <<queues, m, msgs, now, phase, mgrChange, last, list,
                 newStateMachine, resets>>

HandlerReturn ==
    /\ Running("H")
    /\ stk' = Rest
    /\ Did("Return")
    /\ UNCHANGED <<queues, m, marked, msgs, now, phase, mgrChange, calls, last,
                 list, newStateMachine, resets>>

(***************************************************************************)
(* The per-tick loop: the router delivers the due messages, the manager    *)
(* applies the pending machine change and updates the top machine, the     *)
(* clock advances.                                                         *)
(***************************************************************************)
(* The router's frame while it delivers a timer message: the message (q), *)
(* its name, the delay it carries (data) and its scope rule (by).          *)
RouterFrame(msg) ==
    [Frame("Router", "rearm") EXCEPT !.name = msg.name, !.data = msg.data,
                                     !.by = msg.rule, !.q = <<msg>>]

(* The router routes the oldest due message: it is dispatched to the top   *)
(* machine when the owner is not marked for deletion and the scope rule    *)
(* still holds, and dropped otherwise.  StateMachineManager::SendMsg,      *)
(* lines 1444-1453, hands it to the top machine of a queue that is not     *)
(* empty.                                                                  *)
DeliverDelayedMessages ==
    /\ Idle /\ phase = "deliver" /\ Due(msgs, now) # {}
    /\ LET i   == FirstDue(msgs, now)
           msg == msgs[i]
           ok  == ~marked /\ list # <<>> /\ ScopeValid(msg, m)
       IN  /\ msgs' = RemoveAt(msgs, i)
           /\ dlv' = [ name |-> msg.name, rule |-> msg.rule, scope |-> msg.scope,
                       data |-> msg.data,
                       pendingState |-> msg.pendingState, applied |-> msg.applied,
                       gAny |-> msg.gAny, gState |-> msg.gState,
                       gOther |-> msg.gOther, dispatched |-> ok,
                       sender |-> msg.sender,
                       top |-> IF list # <<>> THEN Back(list) ELSE "None",
                       marked |-> marked, scopeState |-> m.scopeState,
                       scopeSubstate |-> m.scopeSubstate ]
           /\ IF ok
              THEN CallProcess(IF msg.timer THEN <<RouterFrame(msg)>> ELSE <<>>,
                               "Message", msg.name, msg.data)
              ELSE stk' = <<>> /\ NoDispatch
    /\ op' = "RouteMsg"
    /\ UNCHANGED <<queues, m, marked, now, phase, mgrChange, calls, list,
                 newStateMachine, resets>>

(* After the delivery of a timer message the router has the top machine   *)
(* send it again, with the delay the message carries and the same rule.    *)
RearmTimer ==
    /\ Running("Router")
    /\ msgs' = IF list # <<>>
               THEN Append(msgs, Stored(SetTimerExternal(m, Top.data, Top.name, Top.by),
                                        m, now, FALSE, Back(list)))
               ELSE msgs
    /\ stk' = Rest
    /\ Did("RearmTimer")
    /\ UNCHANGED <<queues, m, marked, now, phase, mgrChange, calls, last, list,
                 newStateMachine, resets>>

(* A message another game object sends to this one. *)
ExternalMsg ==
    /\ Idle /\ ~marked /\ phase = "update" /\ list # <<>>
    /\ CallProcess(<<>>, "Message", "MSG_A", 0)
    /\ Did("ExternalMsg")
    /\ UNCHANGED <<queues, m, marked, msgs, now, phase, mgrChange, calls, list,
                 newStateMachine, resets>>

(* StateMachineManager::Update for the queue, lines 1427-1431. *)
ManagerUpdate ==
    /\ Idle /\ phase = "deliver" /\ Due(msgs, now) = {}
    /\ phase' = "update"
    /\ stk' = IF list # <<>>
              THEN <<[Frame("Manager", "requests") EXCEPT !.sc = SAFETY_COUNT]>>
              ELSE <<>>
    /\ Did("ManagerUpdate")
    /\ UNCHANGED <<queues, m, marked, msgs, now, mgrChange, calls, last, list,
                 newStateMachine, resets>>

(* Lines 1598-1611: the top machine is deleted, the new one pushed. *)
ManagerReplace(l, x) == Append(IF Len(l) > 0 THEN Front(l) ELSE l, x)

ManagerQueueOnTop(l, x) == Append(l, x)

(* Lines 1625-1642: one up from the bottom, or on top of a list of at most *)
(* one machine.                                                            *)
ManagerQueue(l, x) ==
    IF Len(l) <= 1 THEN Append(l, x) ELSE <<l[1], x>> \o SubSeq(l, 2, Len(l))

(* Lines 1654-1673: the top machine is queued, then popped off the top. *)
ManagerRequeue(l) == IF Len(l) > 1 THEN Front(ManagerQueue(l, Back(l))) ELSE l

(* Lines 1708-1722. *)
ManagerPop(l) == IF Len(l) > 1 THEN Front(l) ELSE l

(* The list after the switch of lines 1506-1539. *)
ChangedList(l, change, x) ==
    CASE change = "STATE_MACHINE_REPLACE" -> ManagerReplace(l, x)
      [] change = "STATE_MACHINE_QUEUE" -> ManagerQueue(l, x)
      [] change = "STATE_MACHINE_REQUEUE" -> ManagerRequeue(l)
      [] change = "STATE_MACHINE_PUSH" -> Append(l, x)
      [] change = "STATE_MACHINE_POP" -> ManagerPop(l)
      [] OTHER -> l

(* Whether the change ends with Reset of the machine then on top: lines    *)
(* 1580-1583, 1610 and 1693-1696, 1641, 1659-1672, 1716-1721.              *)
ResetsNever(l, change) == FALSE

ResetsTop(l, change) ==
    CASE change = "STATE_MACHINE_RESET" -> Len(l) > 0
      [] change = "STATE_MACHINE_REPLACE" -> TRUE
      [] change = "STATE_MACHINE_QUEUE" -> FALSE
      [] change = "STATE_MACHINE_REQUEUE" -> Len(l) > 0
      [] change = "STATE_MACHINE_PUSH" -> TRUE
      [] change = "STATE_MACHINE_POP" -> Len(l) > 1
      [] OTHER -> FALSE

PurgedByNone(change, ms) == ms

(* Lines 1506-1532: every case but Queue begins with PurgeScopedMsg. *)
PurgedBy(change, ms) ==
    IF change = "STATE_MACHINE_QUEUE" THEN ms ELSE PurgeScopedMsg(ms)

MoreRequestsUnbounded(change, sc) == change # "NO_STATE_MACHINE_CHANGE"

(* Line 1499, the test of the loop: safetyCount is decremented only when a *)
(* change is requested, and the loop goes on while it is not below 0.      *)
MoreRequests(change, sc) == change # "NO_STATE_MACHINE_CHANGE" /\ sc - 1 >= 0

(* ProcessStateMachineChangeRequests, lines 1493-1545, one iteration per   *)
(* step: the request is cleared, the scoped messages are purged for every  *)
(* change but Queue, the list is changed, and the machine then on top is   *)
(* Reset when the change says so.  A machine that comes to the top without *)
(* Reset is as its constructor left it (lines 20-28).                      *)
ProcessStateMachineChangeRequests ==
    /\ Running("Manager") /\ Top.pc = "requests"
    /\ IF MoreRequests(mgrChange, Top.sc)
       THEN LET l == ChangedList(list, mgrChange, newStateMachine)
                r == ResetsTop(list, mgrChange)
                f == [Top EXCEPT !.sc = @ - 1, !.name = mgrChange]
            IN  /\ mgrChange' = "NO_STATE_MACHINE_CHANGE"
                /\ newStateMachine' = "None"
                /\ msgs' = PurgedBy(mgrChange, msgs)
                /\ list' = l
                /\ resets' = (resets \cap {l[i] : i \in 1..Len(l)})
                             \cup (IF r THEN {Back(l)} ELSE {})
                /\ m' = IF r \/ (list # <<>> /\ l # <<>> /\ Back(l) # Back(list))
                        THEN Initialize ELSE m
                /\ stk' = Rest \o <<f>>
                          \o (IF r THEN <<Frame("Reset", "probe")>> ELSE <<>>)
       ELSE /\ stk' = Append(Rest, [Top EXCEPT !.pc = "update"])
            /\ UNCHANGED <<queues, m, msgs, mgrChange, newStateMachine, list, resets>>
    /\ Did("ProcessStateMachineChangeRequests")
    /\ UNCHANGED <<queues, marked, now, phase, calls, last>>

(* StateMachine::Update, line 101: the Update event is sent only when some *)
(* Update handler is registered and the owner is not marked for deletion.  *)
UpdateRuns(mch, mk) == mch.registeredEvents \cap REGISTERED_EVENT_UPDATE # {} /\ ~mk

(* Line 1430.  back() of a list that a handler has emptied meanwhile is   *)
(* no machine at all, and the program stops.                               *)
CallUpdate ==
    /\ Running("Manager") /\ Top.pc = "update"
    /\ IF list = <<>>
       THEN /\ stk' = <<>>
            /\ phase' = "crashed"
            /\ NoDispatch
       ELSE /\ phase' = phase
            /\ IF UpdateRuns(m, marked)
               THEN /\ stk' = Append(Rest, [Frame("Update", "sub")
                                               EXCEPT !.ev = "Update"])
                    /\ Dispatch("Update", m.currentState, m.currentSubstate)
               ELSE /\ stk' = Rest
                    /\ NoDispatch
    /\ Did("Update")
    /\ UNCHANGED <<queues, m, marked, msgs, now, mgrChange, calls, list,
                 newStateMachine, resets>>

Tick ==
    /\ Idle /\ phase = "update" /\ now < MaxTime
    /\ now' = now + 1
    /\ phase' = "deliver"
    /\ Did("Tick")
    /\ UNCHANGED <<queues, m, marked, msgs, mgrChange, stk, calls, last, list,
                 newStateMachine, resets>>

Next ==
    \/ ResetProbe
    \/ ResetEnter
    \/ ProcessQuery
    \/ CallPerformStateChanges
    \/ PerformStateChangesLoop
    \/ ExitSubstate
    \/ ExitState
    \/ PerformChange
    \/ EnterNew
    \/ UpdateQuery
    \/ HandlerChangeState
    \/ HandlerChangeSubstate
    \/ HandlerPopState
    \/ HandlerChangeStateDelayed
    \/ HandlerChangeSubstateDelayed
    \/ HandlerSendMsgToSubstate
    \/ HandlerSendMsgToState
    \/ HandlerSendMsgToStateMachineNow
    \/ HandlerDeclareVariable
    \/ HandlerResetStateMachine
    \/ HandlerMarkForDeletion
    \/ HandlerReturn
    \/ DeliverDelayedMessages
    \/ ExternalMsg
    \/ ManagerUpdate
    \/ ProcessStateMachineChangeRequests
    \/ CallUpdate
    \/ Tick

Spec == Init /\ [][Next]_vars

(***************************************************************************)
(* The same program with handlers of Enter, Exit and Update events that    *)
(* only request transitions, and may then make one call more.              *)
(***************************************************************************)
InitPop == Pushed(MaxCallsPop)

NextPop ==
    \/ ResetProbe
    \/ ResetEnter
    \/ ProcessQuery
    \/ CallPerformStateChanges
    \/ PerformStateChangesLoop
    \/ ExitSubstate
    \/ ExitState
    \/ PerformChange
    \/ EnterNew
    \/ UpdateQuery
    \/ HandlerChangeState
    \/ HandlerChangeSubstate
    \/ HandlerPopState
    \/ HandlerChangeStateDelayed
    \/ HandlerReturn
    \/ DeliverDelayedMessages
    \/ ManagerUpdate
    \/ ProcessStateMachineChangeRequests
    \/ CallUpdate
    \/ Tick

SpecPop == InitPop /\ [][NextPop]_vars

(***************************************************************************)
(* The same program with handlers that only ask the manager for changes of *)
(* the queue of machines.                                                  *)
(***************************************************************************)
InitQueue == Pushed(MaxCallsQueue)

NextQueue ==
    \/ ResetProbe
    \/ ResetEnter
    \/ ProcessQuery
    \/ CallPerformStateChanges
    \/ PerformStateChangesLoop
    \/ ExitSubstate
    \/ ExitState
    \/ PerformChange
    \/ EnterNew
    \/ HandlerChangeState
    \/ HandlerResetStateMachine
    \/ HandlerReplaceStateMachine
    \/ HandlerQueueStateMachine
    \/ HandlerRequeueStateMachine
    \/ HandlerPushStateMachine
    \/ HandlerPopStateMachine
    \/ HandlerDeleteStateMachineQueue
    \/ HandlerSendMsgToState
    \/ HandlerSendMsgToStateMachine
    \/ HandlerReturn
    \/ DeliverDelayedMessages
    \/ ExternalMsg
    \/ ManagerUpdate
    \/ ProcessStateMachineChangeRequests
    \/ CallUpdate
    \/ UpdateQuery
    \/ Tick

SpecQueue == InitQueue /\ [][NextQueue]_vars

(***************************************************************************)
(* The same program with handlers that set and stop timers, send delayed   *)
(* messages and change state or substate.                                  *)
(***************************************************************************)
InitTimer == Pushed(MaxCallsTimer)

NextTimer ==
    \/ ResetProbe
    \/ ResetEnter
    \/ ProcessQuery
    \/ CallPerformStateChanges
    \/ PerformStateChangesLoop
    \/ ExitSubstate
    \/ ExitState
    \/ PerformChange
    \/ EnterNew
    \/ HandlerChangeState
    \/ HandlerChangeSubstate
    \/ HandlerSendMsgDelayedToState
    \/ HandlerSetTimerSubstate
    \/ HandlerSetTimerState
    \/ HandlerSetTimerStateMachine
    \/ HandlerStopTimer
    \/ HandlerReturn
    \/ DeliverDelayedMessages
    \/ RearmTimer
    \/ ExternalMsg
    \/ ManagerUpdate
    \/ ProcessStateMachineChangeRequests
    \/ CallUpdate
    \/ UpdateQuery
    \/ Tick

SpecTimer == InitTimer /\ [][NextTimer]_vars

(***************************************************************************)
(* The manager's dispatch over its queues: StateMachineManager::Process,   *)
(* SendMsg and Update hand an event to machines of the queues.  A machine  *)
(* is the count of the events it was handed.                               *)
(***************************************************************************)
(* back()->Process( event, msg ) or back()->Update() on a queue. *)
HandToBottom(l) == <<Head(l) + 1>> \o Tail(l)

HandToTop(l) == Append(Front(l), Back(l) + 1)

(* Lines 1466-1480: the queues Process dispatches to. *)
ProcessQueues(qs, queue) ==
    IF queue < STATE_MACHINE_NUM_QUEUES
    THEN {q \in {queue} : qs[q] # <<>>}
    ELSE IF queue = STATE_MACHINE_QUEUE_ALL
         THEN {q \in QueueIds : qs[q] # <<>>}
         ELSE {}

(* Lines 1425-1432 and 1446-1451: the queues Update and SendMsg dispatch   *)
(* to.                                                                     *)
NonEmptyQueues(qs) == {q \in QueueIds : qs[q] # <<>>}

Dispatched(qs, to) == [q \in QueueIds |-> IF q \in to THEN HandToTop(qs[q]) ELSE qs[q]]

Room(qs, to) == \A q \in to : Back(qs[q]) < MaxEvents

InitManager ==
    /\ m = Initialize
    /\ calls = 0
    /\ marked = FALSE
    /\ msgs = <<>>
    /\ now = 0
    /\ phase = "deliver"
    /\ mgrChange = "NO_STATE_MACHINE_CHANGE"
    /\ newStateMachine = "None"
    /\ list = <<DefaultMachine>>
    /\ resets = {DefaultMachine}
    /\ stk = <<>>
    /\ op = "PushStateMachine"
    /\ last = NoEvent
    /\ dlv = NoDelivery
    /\ queues \in [QueueIds -> {[i \in 1..n |-> 0] : n \in 0..MaxQueueLen}]

ManagerProcess ==
    /\ \E queue \in QueueIds \cup {STATE_MACHINE_QUEUE_ALL, STATE_MACHINE_QUEUE_NULL} :
          /\ Room(queues, ProcessQueues(queues, queue))
          /\ queues' = Dispatched(queues, ProcessQueues(queues, queue))
          /\ dlv' = [name |-> "None", queue |-> queue]
    /\ op' = "ManagerProcess"
    /\ UNCHANGED <<m, marked, msgs, now, phase, mgrChange, newStateMachine, list,
                   resets, stk, calls, last>>

ManagerSendMsg ==
    /\ Room(queues, NonEmptyQueues(queues))
    /\ queues' = Dispatched(queues, NonEmptyQueues(queues))
    /\ op' = "ManagerSendMsg"
    /\ dlv' = NoDelivery
    /\ UNCHANGED <<m, marked, msgs, now, phase, mgrChange, newStateMachine, list,
                   resets, stk, calls, last>>

(* Lines 1423-1433 with no change request pending on any queue. *)
ManagerUpdateQueues ==
    /\ mgrChange = "NO_STATE_MACHINE_CHANGE"
    /\ Room(queues, NonEmptyQueues(queues))
    /\ queues' = Dispatched(queues, NonEmptyQueues(queues))
    /\ op' = "ManagerUpdateQueues"
    /\ dlv' = NoDelivery
    /\ UNCHANGED <<m, marked, msgs, now, phase, mgrChange, newStateMachine, list,
                   resets, stk, calls, last>>

NextManager ==
    \/ ManagerProcess
    \/ ManagerSendMsg
    \/ ManagerUpdateQueues

SpecManager == InitManager /\ [][NextManager]_vars

(***************************************************************************)
(* The machine of an agent whose handlers change state and substate,       *)
(* declare variables, fill the broadcast list, mark the owner for deletion *)
(* and ask for a reset of the machine.                                     *)
(***************************************************************************)
InitReset == Pushed(MaxCallsReset)

NextReset ==
    \/ ResetProbe
    \/ ResetEnter
    \/ ProcessQuery
    \/ CallPerformStateChanges
    \/ PerformStateChangesLoop
    \/ ExitSubstate
    \/ ExitState
    \/ PerformChange
    \/ EnterNew
    \/ UpdateQuery
    \/ HandlerChangeState
    \/ HandlerChangeSubstate
    \/ HandlerDeclareVariable
    \/ HandlerBroadcastAddToList
    \/ HandlerMarkForDeletion
    \/ HandlerResetStateMachine
    \/ HandlerReturn
    \/ ManagerUpdate
    \/ ProcessStateMachineChangeRequests
    \/ CallUpdate
    \/ Tick

SpecReset == InitReset /\ [][NextReset]_vars

(***************************************************************************)
(* The same program with handlers that only request machine changes        *)
(* (reset, push, pop), enough times for one call of                        *)
(* ProcessStateMachineChangeRequests to use up its safety count.           *)
(***************************************************************************)
InitRequests == Pushed(MaxCallsRequests)

NextRequests ==
    \/ ResetProbe
    \/ ResetEnter
    \/ ProcessQuery
    \/ CallPerformStateChanges
    \/ PerformStateChangesLoop
    \/ HandlerResetStateMachine
    \/ HandlerPushStateMachine
    \/ HandlerPopStateMachine
    \/ HandlerReturn
    \/ ManagerUpdate
    \/ ProcessStateMachineChangeRequests
    \/ CallUpdate
    \/ Tick

SpecRequests == InitRequests /\ [][NextRequests]_vars

(***************************************************************************)
(* The machine of an agent whose handlers build a broadcast list and       *)
(* broadcast, to the list or to the agents of a type.                      *)
(***************************************************************************)
InitBroadcast == Pushed(MaxCallsBroadcast)

NextBroadcast ==
    \/ ResetProbe
    \/ ResetEnter
    \/ ProcessQuery
    \/ CallPerformStateChanges
    \/ PerformStateChangesLoop
    \/ HandlerBroadcastAddToList
    \/ HandlerBroadcastClearList
    \/ HandlerSendMsgBroadcastToList
    \/ HandlerSendMsgBroadcastNow
    \/ HandlerReturn

SpecBroadcast == InitBroadcast /\ [][NextBroadcast]_vars

(***************************************************************************)
(* The same program with handlers that only call ChangeState, enough times *)
(* for one call of PerformStateChanges to use up its safety count.         *)
(***************************************************************************)
InitFlip == Pushed(MaxCallsFlip)

NextFlip ==
    \/ ResetProbe
    \/ ResetEnter
    \/ ProcessQuery
    \/ CallPerformStateChanges
    \/ PerformStateChangesLoop
    \/ ExitSubstate
    \/ ExitState
    \/ PerformChange
    \/ EnterNew
    \/ HandlerChangeState
    \/ HandlerReturn

SpecFlip == InitFlip /\ [][NextFlip]_vars

(***************************************************************************)
(* The same program with handlers that call ChangeState and                *)
(* ChangeSubstate, enough times to fill the state stack and go beyond.     *)
(***************************************************************************)
InitStack == Pushed(MaxCallsStack)

NextStack ==
    \/ ResetProbe
    \/ ResetEnter
    \/ ProcessQuery
    \/ CallPerformStateChanges
    \/ PerformStateChangesLoop
    \/ ExitSubstate
    \/ ExitState
    \/ PerformChange
    \/ EnterNew
    \/ HandlerChangeState
    \/ HandlerChangeSubstate
    \/ HandlerReturn

SpecStack == InitStack /\ [][NextStack]_vars

(***************************************************************************)
(* The properties.                                                         *)
(***************************************************************************)
ProcessFrames == {i \in 1..Len(stk) : stk[i].k = "Process"}

(* The ladder of queries for an event handed to Process in (s, ss). *)
Ladder(s, ss) ==
    (IF ss >= 0 THEN <<[s |-> s, ss |-> ss]>> ELSE <<>>)
    \o <<[s |-> s, ss |-> NO_SUBSTATE], [s |-> GLOBAL, ss |-> NO_SUBSTATE]>>

(* C1: every event handed to Process on a machine whose owner is not       *)
(* marked for deletion queries the transition function for (current state, *)
(* current substate) when a substate is set, then (current state, any),    *)
(* then (any, any); nothing is queried after a query that returned handled,*)
(* and all levels are queried when none handles.                           *)
C1_QueryOrder ==
    \A i \in ProcessFrames :
        LET f == stk[i]
            L == Ladder(f.s0, f.ss0)
            n == Len(f.q)
        IN  /\ n <= Len(L)
            /\ \A j \in 1..n : /\ f.q[j].s = L[j].s
                               /\ f.q[j].ss = L[j].ss
                               /\ (j < n => ~f.q[j].h)
            /\ IF f.pc = "psc"
               THEN n >= 1 /\ (f.q[n].h \/ n = Len(L))
               ELSE \A j \in 1..n : ~f.q[j].h

(* A message went down the whole ladder of a machine in a substate, and no *)
(* level handled it.                                                       *)
C1_Witness ==
    \E i \in ProcessFrames :
        /\ stk[i].ev = "Message" /\ stk[i].ss0 >= 0 /\ stk[i].pc = "psc"
        /\ Len(stk[i].q) = 3 /\ ~stk[i].q[3].h

(* The router routed a delayed message in this step. *)
Routed == dlv.name # "None"

(* What the scope rule of the routed message compares at delivery. *)
ScopeStillEqual ==
    CASE dlv.rule = "SCOPE_TO_STATE" -> dlv.scope = dlv.scopeState
      [] dlv.rule = "SCOPE_TO_SUBSTATE" -> dlv.scope = dlv.scopeSubstate
      [] OTHER -> TRUE

(* The machine applied no transition between the send and the delivery. *)
NothingApplied == ~dlv.gAny /\ ~dlv.gOther

(* C2, as stated: a self-addressed message sent with scope State (resp.    *)
(* Substate) is dispatched to the machine if and only if the machine's     *)
(* scope_state (resp. scope_substate) still equals the captured value at   *)
(* delivery time.                                                          *)
C2_AsStated == Routed => (dlv.dispatched <=> ScopeStillEqual)

(* C2, amended: when the owner is not marked for deletion at delivery, a   *)
(* scoped self-addressed message is dispatched if and only if the scope    *)
(* counter of its rule still equals the value captured at the send; it is  *)
(* dispatched when the machine applied no transition since the send, a     *)
(* Substate-scoped message is dropped after any state or substate change,  *)
(* and a State-scoped message is dispatched when every change since the    *)
(* send was a substate-only change.                                        *)
C2_ScopedDelivery ==
    Routed /\ ~dlv.marked =>
        /\ dlv.dispatched <=> ScopeStillEqual
        /\ NothingApplied => dlv.dispatched
        /\ dlv.rule = "SCOPE_TO_SUBSTATE" /\ dlv.gAny => ~dlv.dispatched
        /\ dlv.rule = "SCOPE_TO_STATE" /\ ~dlv.gOther => dlv.dispatched

(* A State-scoped message is dispatched after a substate-only change, and  *)
(* the owner is not marked for deletion.                                   *)
C2_Witness ==
    /\ Routed /\ ~dlv.marked /\ dlv.dispatched
    /\ dlv.rule = "SCOPE_TO_STATE" /\ dlv.gAny /\ ~dlv.gOther

(* The handlers still running that made a transition request the runtime  *)
(* accepted.                                                               *)
Requesters ==
    {i \in 1..Len(stk) : /\ stk[i].k = "H" /\ stk[i].req
                         /\ stk[i].ev \in {"Message", "Update", "Enter"}}

(* C3: a transition requested inside a Message, Update or Enter handler H  *)
(* is applied only after H has returned, also when H issues an immediate   *)
(* send after the request: while H is running, its request is pending.     *)
C3_AppliedAfterReturn ==
    Requesters # {} => m.stateChange # "NO_STATE_CHANGE"

(* The fields of the machine other than the pending request. *)
Settled(mch) ==
    <<mch.currentState, mch.currentSubstate, mch.scopeState, mch.scopeSubstate,
      mch.stack, mch.stateVariables, mch.substateVariables, mch.registeredEvents,
      mch.timeOnEnterState, mch.timeOnEnterSubstate, mch.stateChangeAllowed,
      mch.delayedStateChangeQueued, mch.delayedSubstateChangeQueued>>

RequestCalls == {"ChangeState", "ChangeSubstate", "PopState"}

(* C4: a call of ChangeState, ChangeSubstate or PopState only records the  *)
(* pending request: the current state and substate, both scope counters,   *)
(* the state stack, the state and substate variables and the registered    *)
(* events are the same after the call as before it, and an accepted call   *)
(* leaves a request pending.                                               *)
C4_RequestOnlyRecorded ==
    [][op' \in RequestCalls =>
          /\ Settled(m') = Settled(m)
          /\ m.stateChangeAllowed => m'.stateChange # "NO_STATE_CHANGE"]_vars

(* PopState was called and accepted on a machine with a non-empty stack,   *)
(* in a substate.                                                          *)
C4_Witness ==
    /\ op = "PopState" /\ m.stateChange = "STATE_POP" /\ m.stack # <<>>
    /\ m.currentSubstate >= 0

PSCFrames == {i \in 1..Len(stk) : stk[i].k = "PSC"}

(* The events one iteration of PerformStateChanges may send, in order. *)
IterationOrder == <<"ExitSubstate", "ExitState", "Probe", "Enter">>

Position(e) == CHOOSE j \in 1..Len(IterationOrder) : IterationOrder[j] = e

(* The next step of the program sends the Enter event. *)
SendsEnter ==
    \/ Running("PSC") /\ Top.pc = "enter" /\ EnterDue(m)
    \/ Running("Reset") /\ Top.pc = "enter" /\ ~marked

(* C5: in every applied transition the Exit events of the departing scope  *)
(* (substate first, then state) are sent strictly before the Probe of the  *)
(* new (state, substate), and that Probe strictly before the new Enter,    *)
(* each of them sent at most once and the Probe exactly once; every Enter, *)
(* from a transition or from Reset, directly follows the Probe for the     *)
(* same (state, substate), with no event in between.                       *)
C5_ExitProbeEnter ==
    /\ \A i \in PSCFrames :
          LET q == stk[i].q
          IN  /\ \A j, k \in 1..Len(q) : j < k => Position(q[j]) < Position(q[k])
              /\ stk[i].pc \in {"enter", "while"} /\ q # <<>> =>
                    "Probe" \in {q[j] : j \in 1..Len(q)}
    /\ SendsEnter =>
          /\ last.ev = "Probe"
          /\ last.s = m.currentState /\ last.ss = m.currentSubstate

(* A transition out of a substate sent both Exit events, then the Probe,   *)
(* then the Enter of the new state.                                        *)
C5_Witness ==
    \E i \in PSCFrames : stk[i].q = IterationOrder

(* The waiting State-scoped messages that a handler sent after calling     *)
(* ChangeState(B), where the machine is now in B by that request.          *)
SentBeforeArrival ==
    {i \in 1..Len(msgs) : msgs[i].rule = "SCOPE_TO_STATE" /\ msgs[i].applied}

C7_DelayedChangeDropped ==
    /\ Routed /\ dlv.name = "MSG_CHANGE_STATE_DELAYED" /\ dlv.gState
          => ~dlv.dispatched
    /\ Routed /\ dlv.name = "MSG_CHANGE_SUBSTATE_DELAYED" /\ dlv.gAny
          => ~dlv.dispatched

(* The events the running iteration of PerformStateChanges has sent. *)
SentByIteration == {Top.q[j] : j \in 1..Len(Top.q)}

(* C8: every applied PopState with a non-empty state stack is a            *)
(* state-level change, whatever the machine's earlier transition was: the  *)
(* departing state's declared state-scope Exit is sent, scope_state is     *)
(* incremented, the state-scoped variables are wiped, time_on_enter_state  *)
(* is refreshed, and the restored state's declared Enter is sent.          *)
C8_PopIsStateLevel ==
    [][/\ op' = "PerformChange" /\ PopApplies(m) =>
            /\ "Exit" \in Declared(m.currentState, NO_SUBSTATE)
                  => "ExitState" \in SentByIteration
            /\ m'.scopeState = m.scopeState + 1
            /\ m'.stateVariables = <<>>
            /\ m'.timeOnEnterState = now
       /\ op' = "EnterNew" /\ Top.name = "STATE_POP"
                           /\ "Enter" \in Declared(m.currentState, NO_SUBSTATE) =>
            last' = [ev |-> "Enter", s |-> m.currentState, ss |-> NO_SUBSTATE]]_vars

ChangeCalls ==
    {"ChangeState", "ChangeSubstate", "PopState",
     "ChangeStateDelayed", "ChangeSubstateDelayed"}

(* C9: a call of ChangeState, ChangeSubstate, PopState, ChangeStateDelayed *)
(* or ChangeSubstateDelayed made inside an Exit handler is rejected: it    *)
(* changes neither the pending request nor the machine, and sends no       *)
(* delayed-change message.                                                 *)
C9_RejectedInExit ==
    [][Running("H") /\ Top.ev = "Exit" /\ op' \in ChangeCalls =>
          m' = m /\ msgs' = msgs]_vars

(* The running Enter handlers that PerformStateChanges dispatched and that *)
(* made a transition request the runtime accepted.                         *)
EnterRequesters ==
    {i \in 1..Len(stk) : /\ stk[i].k = "H" /\ stk[i].ev = "Enter"
                         /\ stk[i].by = "PSC" /\ stk[i].req}

(* C10: a transition requested inside an Enter handler that                *)
(* PerformStateChanges dispatched is accepted, and it is applied in a      *)
(* further iteration of that same call of PerformStateChanges: the request *)
(* is still pending when the handler returns to that call, whose loop then *)
(* runs once more.                                                         *)
C10_AppliedBySameCall ==
    /\ EnterRequesters # {} => m.stateChange # "NO_STATE_CHANGE"
    /\ Running("PSC") /\ Top.pc = "while" /\ m.stateChange # "NO_STATE_CHANGE"
          => LoopAgain(m, Top.sc)

(* The pending request of the machine. *)
Pending(mch) == <<mch.stateChange, mch.nextState, mch.nextSubstate>>

(* C11: when a transition is already pending, a further call of            *)
(* ChangeState, ChangeSubstate or PopState is rejected: state_change,      *)
(* next_state and next_substate keep the values of the first request.      *)
C11_SecondRequestRejected ==
    [][op' \in RequestCalls /\ m.stateChange # "NO_STATE_CHANGE" =>
          Pending(m') = Pending(m)]_vars

(* The fields of the machine an absorbed request would leave alone. *)
Kept(mch) ==
    <<mch.currentState, mch.currentSubstate, mch.scopeState, mch.scopeSubstate,
      mch.stateVariables, mch.substateVariables>>

(* C12: a PopState request applied while the state stack is empty has no   *)
(* effect, whatever history left the stack empty: the current state and    *)
(* substate, both scope counters and the state and substate variables are  *)
(* unchanged, and the iteration sends no Exit and no Enter event.          *)
C12_EmptyPopAbsorbed ==
    [][/\ op' = "PerformChange" /\ m.stateChange = "STATE_POP" /\ m.stack = <<>> =>
            Kept(m') = Kept(m) /\ SentByIteration = {}
       /\ op' = "EnterNew" /\ Top.name = "EMPTY_POP" => last' = last]_vars

(* C13: one call of PerformStateChanges applies exactly one pending        *)
(* transition per loop iteration and at most 20 transitions in total, and  *)
(* it returns even when every Enter handler requests another transition:   *)
(* the iterations left never go below zero, each finished iteration has    *)
(* applied its one change and cleared the request it applied, and with no  *)
(* iteration left the call returns although a request is pending.          *)
C13_BoundedIterations ==
    /\ [](\A i \in PSCFrames :
            /\ stk[i].sc \in 0..SAFETY_COUNT
            /\ stk[i].pc = "while" /\ stk[i].sc < SAFETY_COUNT =>
                  Cardinality({j \in 1..Len(stk[i].q) : stk[i].q[j] = "Probe"}) = 1)
    /\ [][/\ op' = "PerformChange" => m'.stateChange = "NO_STATE_CHANGE"
          /\ Running("PSC") /\ Top.pc = "while" /\ Top.sc = 0 => stk' = Rest]_vars

(* The 20th iteration of one call has run, and its Enter handler has       *)
(* requested another transition.                                           *)
C13_Witness ==
    /\ Running("PSC") /\ Top.pc = "while" /\ Top.sc = 0
    /\ m.stateChange # "NO_STATE_CHANGE" /\ m.scopeState = SAFETY_COUNT

(* The last n entries of a sequence, all of them when it is shorter. *)
Newest(a, n) == SubSeq(a, IF Len(a) > n THEN Len(a) - n + 1 ELSE 1, Len(a))

(* C14: the state stack never holds more than MAX_STATE_STACK_SIZE = 10    *)
(* entries; an applied state-level change pushes the departed state and    *)
(* keeps the 10 newest entries in order, evicting the oldest; an applied   *)
(* substate-only change leaves the stack as it was.                        *)
C14_StackBounded ==
    /\ [](Len(m.stack) <= MAX_STATE_STACK_SIZE)
    /\ [][op' = "PerformChange" /\ m.stateChange = "STATE_CHANGE" =>
            IF m.nextSubstate < 0
            THEN m'.stack = Newest(m.stack \o <<m.currentState>>, 10)
            ELSE m'.stack = m.stack /\ m'.currentState = m.currentState]_vars

(* The eleventh state-level change has just been applied to a full stack,  *)
(* after a substate-only change earlier on.                                *)
C14_Witness ==
    /\ op = "PerformChange" /\ Len(m.stack) = MAX_STATE_STACK_SIZE
    /\ m.scopeState = MAX_STATE_STACK_SIZE + 1
    /\ m.scopeSubstate > m.scopeState

(* The pending request is a state transition that will be applied: a      *)
(* change of state, or a pop with a state to return to.                    *)
StateTransitionDue(mch) ==
    \/ mch.stateChange = "STATE_CHANGE" /\ mch.nextSubstate < 0
    \/ mch.stateChange = "STATE_POP" /\ mch.stack # <<>>

(* C15: after any applied state transition (ChangeState to any state, or   *)
(* PopState), and before the new state's Enter handler runs, the current   *)
(* substate is none and the substate-scoped variables are empty.           *)
C15_SubstateCleared ==
    [][op' = "PerformChange" /\ StateTransitionDue(m) =>
          /\ m'.currentSubstate = NO_SUBSTATE
          /\ m'.substateVariables = <<>>
          /\ Top'.pc = "enter"]_vars

(* A state transition has just been applied to a machine that was in a     *)
(* substate: the iteration has sent the Exit of the substate and of the    *)
(* state, and the Enter of the new state is still to come.                 *)
C15_Witness ==
    /\ op = "PerformChange" /\ Running("PSC") /\ Top.pc = "enter"
    /\ {"ExitSubstate", "ExitState"} \subseteq SentByIteration
    /\ m.currentSubstate = NO_SUBSTATE

(* What a change of substate alone must leave as it was. *)
StateLevel(mch) ==
    <<mch.currentState, mch.scopeState, mch.stack, mch.timeOnEnterState,
      mch.stateVariables>>

(* C16: an applied substate-only change (ChangeSubstate) leaves the        *)
(* current state, scope_state, the state stack, time_on_enter_state and    *)
(* the state-scoped variables unchanged, while it increments               *)
(* scope_substate and wipes the substate-scoped variables.                 *)
C16_SubstateChangeFrame ==
    [][op' = "PerformChange" /\ m.stateChange = "STATE_CHANGE" /\ m.nextSubstate >= 0 =>
          /\ StateLevel(m') = StateLevel(m)
          /\ m'.currentSubstate = m.nextSubstate
          /\ m'.scopeSubstate = m.scopeSubstate + 1
          /\ m'.substateVariables = <<>>]_vars

(* A substate-only change has just been applied to a machine that has a    *)
(* state on its stack, a state-scoped variable and an entry time of its    *)
(* state that is not the current time.                                     *)
C16_Witness ==
    /\ op = "PerformChange" /\ Running("PSC") /\ Top.name = "None"
    /\ m.currentSubstate >= 0
    /\ m.stack # <<>> /\ m.stateVariables # <<>>
    /\ m.timeOnEnterState < now

(* C17: scope_state and scope_substate of a machine instance are monotone: *)
(* over the whole lifetime of the instance, including across Reset of the  *)
(* machine, neither counter ever decreases, and every applied state or     *)
(* substate change strictly increases scope_substate.                      *)
C17_ScopesMonotone ==
    [][/\ m'.scopeState >= m.scopeState
       /\ m'.scopeSubstate >= m.scopeSubstate
       /\ op' = "PerformChange" => m'.scopeSubstate > m.scopeSubstate]_vars

(* C18: once the queue holds its default machine, after any sequence of    *)
(* operations available to handlers (Reset, Replace, Queue, Requeue, Push, *)
(* Pop requests and DeleteStateMachineQueue) the queue still holds at      *)
(* least one machine and its bottom machine is still the default one.      *)
C18_DefaultStays == list # <<>> /\ list[1] = DefaultMachine

(* The step hands an Update or a Message event to the top machine. *)
HandsEvent ==
    \/ op' = "ExternalMsg"
    \/ op' = "RouteMsg" /\ dlv'.dispatched
    \/ op' = "Update" /\ stk' # <<>> /\ Back(stk').k = "Update"

(* C19: a machine added through a Queue request is never the top of its    *)
(* queue without having been Reset, and it is Reset before it receives any *)
(* Update or Message, for every size of the queue at the time of the       *)
(* request; events go to the top machine only.                             *)
C19_QueuedDormant ==
    /\ [](list # <<>> => Back(list) \in resets)
    /\ [][HandsEvent => list # <<>> /\ Back(list) \in resets]_vars

(* The change the manager applied in its latest iteration. *)
ManagerApplied == IF stk # <<>> /\ stk[1].k = "Manager" THEN stk[1].name ELSE "None"

(* C20: applying a Queue request to a queue of at least two machines puts  *)
(* the new machine immediately above the bottom one and leaves the top     *)
(* machine and the order of the others unchanged; applying a Requeue       *)
(* request to a queue of at least three machines moves the top machine to  *)
(* index 1 (above the bottom one) and Resets the machine that thereby      *)
(* becomes top.  So [default, A] + Queue(C) is [default, C, A], and a      *)
(* Requeue then gives [default, A, C] with C being Reset.                  *)
C20_QueueAndRequeue ==
    [][op' = "ProcessStateMachineChangeRequests" =>
        /\ mgrChange = "STATE_MACHINE_QUEUE" /\ Len(list) >= 2 =>
              /\ Len(list') = Len(list) + 1
              /\ list'[1] = list[1] /\ list'[2] = newStateMachine
              /\ \A i \in 2..Len(list) : list'[i + 1] = list[i]
              /\ m' = m /\ resets' = resets
              /\ Back(stk').k = "Manager"
              /\ (list = <<DefaultMachine, "A">> /\ newStateMachine = "C" =>
                    list' = <<DefaultMachine, "C", "A">>)
        /\ mgrChange = "STATE_MACHINE_REQUEUE" /\ Len(list) >= 3 =>
              /\ Len(list') = Len(list)
              /\ list'[1] = list[1] /\ list'[2] = list[Len(list)]
              /\ \A i \in 2..(Len(list) - 1) : list'[i + 1] = list[i]
              /\ m' = Initialize /\ Back(list') \in resets'
              /\ Back(stk') = Frame("Reset", "probe")
              /\ (list = <<DefaultMachine, "C", "A">> =>
                    list' = <<DefaultMachine, "A", "C">>)]_vars

(* [default, A] has become [default, C, A] by a Queue request, and the     *)
(* Requeue request just applied has made it [default, A, C], with C about  *)
(* to be Reset.                                                            *)
C20_Witness ==
    /\ op = "ProcessStateMachineChangeRequests"
    /\ ManagerApplied = "STATE_MACHINE_REQUEUE"
    /\ list = <<DefaultMachine, "A", "C">>
    /\ Running("Reset")

ManagerRequestCalls ==
    {"ResetStateMachine", "ReplaceStateMachine", "QueueStateMachine",
     "RequeueStateMachine", "PushStateMachine", "PopStateMachine"}

PendingChange == <<mgrChange, newStateMachine>>

(* C21: a Reset, Replace, Queue, Requeue, Push or Pop request made by a     *)
(* handler does not modify the queue's machines at the time of the         *)
(* request; it is applied at the start of the manager's next Update for    *)
(* the queue, before the top machine receives its Update event.  So the    *)
(* requesting call leaves the list and the machine as they were, a pending *)
(* request goes away only by being applied by the manager, and none is     *)
(* pending when the Update event is handed to the top machine.             *)
C21_AppliedAtNextUpdate ==
    [][/\ op' \in ManagerRequestCalls => list' = list /\ m' = m /\ resets' = resets
       /\ mgrChange # "NO_STATE_MACHINE_CHANGE" /\ PendingChange' # PendingChange =>
             /\ op' = "ProcessStateMachineChangeRequests"
             /\ ManagerApplied' = mgrChange
             /\ list' = ChangedList(list, mgrChange, newStateMachine)
       /\ op' = "Update" /\ list # <<>> => mgrChange = "NO_STATE_MACHINE_CHANGE"]_vars

(* C23: if a machine-change request arrives while another request is       *)
(* pending on the queue, the second request is dropped: the pending change *)
(* kind and its new-machine argument remain those of the first request.    *)
C23_SecondRequestDropped ==
    [][op' \in ManagerRequestCalls /\ mgrChange # "NO_STATE_MACHINE_CHANGE" =>
          PendingChange' = PendingChange]_vars

PurgingChanges ==
    {"STATE_MACHINE_RESET", "STATE_MACHINE_REPLACE", "STATE_MACHINE_REQUEUE",
     "STATE_MACHINE_PUSH", "STATE_MACHINE_POP"}

Scoped(ms) == {i \in 1..Len(ms) : ms[i].rule # "SCOPE_TO_STATE_MACHINE"}

(* C22: when a Reset, Replace, Requeue, Push or Pop request is applied,    *)
(* the purge of the scoped messages runs before any Probe or Enter of the  *)
(* machine being activated, so the scoped messages that Enter sends are    *)
(* not purged; applying a Queue request purges nothing.  So the applying   *)
(* step leaves exactly the unscoped messages, in order, with no event      *)
(* dispatched yet, and a message leaves the router only by being routed or *)
(* by the purge of a later request.                                        *)
C22_PurgeBeforeActivation ==
    [][/\ op' = "ProcessStateMachineChangeRequests" /\ mgrChange \in PurgingChanges =>
             /\ Scoped(msgs') = {}
             /\ msgs' = SelectSeq(msgs, LAMBDA x : x \in {msgs'[i] : i \in 1..Len(msgs')})
             /\ Len(msgs') = Len(msgs) - Cardinality(Scoped(msgs))
             /\ last' = last
             /\ Back(stk').k = "Reset" => Back(stk').pc = "probe"
       /\ op' = "ProcessStateMachineChangeRequests" /\ mgrChange = "STATE_MACHINE_QUEUE" =>
             msgs' = msgs
       /\ Len(msgs') < Len(msgs) =>
             \/ op' = "RouteMsg"
             \/ op' = "ProcessStateMachineChangeRequests" /\ mgrChange \in PurgingChanges]_vars

(* The Enter handler of the machine that a Push, Replace, Pop, Requeue or  *)
(* Reset request has just activated has sent a scoped message, and the     *)
(* router holds it.                                                        *)
C22_Witness ==
    /\ ManagerApplied \in PurgingChanges
    /\ Running("H") /\ Top.ev = "Enter" /\ Top.by = "Process"
    /\ op = "SendMsgToState"
    /\ Scoped(msgs) # {} /\ calls = 0

(* C24: a Machine-scoped self-addressed message is dispatched only while   *)
(* the machine instance that sent it is still the top machine of the       *)
(* queue; after that instance has been popped, replaced or requeued below  *)
(* another machine, the message is not dispatched to the machine then on   *)
(* top.                                                                    *)
C24_MachineScopeFollowsInstance ==
    [][op' = "RouteMsg" /\ dlv'.rule = "SCOPE_TO_STATE_MACHINE" /\ dlv'.dispatched =>
          dlv'.top = dlv'.sender]_vars

(* C25: SetTimerState(delay, name) sends its timer message with scope rule *)
(* State and scope value scope_state, so the timer keeps firing across     *)
(* substate-only changes inside the state and stops only once the state    *)
(* changes.                                                                *)
C25_StateTimerScopedToState ==
    [][/\ op' = "SetTimerState" =>
             /\ Back(msgs').rule = "SCOPE_TO_STATE"
             /\ Back(msgs').scope = m.scopeState
       /\ op' = "RouteMsg" /\ dlv'.name = "MSG_TimerState" /\ ~dlv'.marked =>
             (dlv'.dispatched <=> ~dlv'.gState)]_vars

(* The scope the timer of the routed message was set in is still current:  *)
(* no change of substate or state since for a timer of the substate, the   *)
(* state not left since for a timer of the state, the sending machine      *)
(* still on top for a timer of the machine.                                *)
TimerScopeCurrent(d) ==
    CASE d.name = "MSG_TimerSubstate" -> ~d.gAny
      [] d.name = "MSG_TimerState" -> ~d.gState
      [] OTHER -> d.top = d.sender

(* C26: a timer set with SetTimerSubstate/SetTimerState/                   *)
(* SetTimerStateMachine(d, name) is re-armed after each delivery with the  *)
(* original delay and the same scope rule, so its handler runs every d     *)
(* while the scope it was set in is still current; once that scope has     *)
(* been left by a transition triggered by some other event, the handler    *)
(* never runs again.                                                       *)
C26_TimerRearmed ==
    [][/\ op' = "RearmTimer" =>
             /\ Len(msgs') = Len(msgs) + 1
             /\ Back(msgs').name = Top.q[1].name
             /\ Back(msgs').rule = Top.q[1].rule
             /\ Back(msgs').delay = Top.q[1].delay
             /\ Back(msgs').at = now + Top.q[1].delay
             /\ Back(msgs').timer
       /\ op' = "RouteMsg" /\ dlv'.name \in TimerNames /\ ~dlv'.marked =>
             /\ dlv'.dispatched <=> TimerScopeCurrent(dlv')
             /\ dlv'.dispatched => stk'[1].k = "Router"]_vars

(* C27: after StopTimer(name) returns, no pending self-addressed message   *)
(* named name remains at the router for the agent, and no handler for name *)
(* runs as a consequence of a timer set before the StopTimer call: the     *)
(* delivery of a timer message during which StopTimer(name) was called     *)
(* schedules no further copy of it.                                        *)
C27_StopTimerStops ==
    [][/\ op' = "StopTimer" =>
             \A i \in 1..Len(msgs') : msgs'[i].name # dlv'.name
       /\ op' = "RearmTimer" /\ Top.req => msgs' = msgs]_vars

(* The calls that send a message to the machine itself in a form that is   *)
(* not a Now form.                                                         *)
NonNowSends ==
    {"SendMsgToSubstate", "SendMsgToState", "SendMsgToStateMachine",
     "SendMsgDelayedToState", "SetTimerSubstate", "SetTimerState",
     "SetTimerStateMachine"}

(* C28: every self-addressed message sent through a call form that is not  *)
(* a Now form is handed to the router with a delay of at least ONE_FRAME,  *)
(* for every delay argument the caller passes, so the router stores it for *)
(* a later tick; only the Now forms hand over delay 0 and are delivered    *)
(* within the call.                                                        *)
C28_NonNowAtLeastOneFrame ==
    [][/\ op' \in NonNowSends =>
             /\ Len(msgs') = Len(msgs) + 1
             /\ Back(msgs').delay >= ONE_FRAME
       /\ op' = "SendMsgToStateMachineNow" => msgs' = msgs]_vars

(* The step sends an event of a transition (Exit, Probe or Enter) from     *)
(* PerformStateChanges to the transition function.                         *)
TransitionEventSent ==
    /\ Running("PSC")
    /\ Len(stk') >= Len(stk)
    /\ stk'[Len(stk)].k = "PSC"
    /\ Len(stk'[Len(stk)].q) > Len(Top.q)

(* C29: no event of any kind (Probe, Enter, Exit, Update, Message) is      *)
(* dispatched to the transition function of a machine while its owning     *)
(* agent is marked for deletion, including the Exit, Probe and Enter       *)
(* events of a transition that is applied after a handler marked the agent *)
(* during the same Process or Update call.                                 *)
C29_NoDispatchWhenMarked ==
    [][last' # last \/ TransitionEventSent => ~marked]_vars

(* C30: every StateMachine::Update call on a machine whose owner is not    *)
(* marked for deletion ends by invoking PerformStateChanges, whether or    *)
(* not an Update handler is declared or handled the event: the call enters *)
(* the body of Update, whose last statement is PerformStateChanges.        *)
C30_UpdateAlwaysPerformsChanges ==
    [][op' = "Update" /\ list # <<>> /\ ~marked =>
           /\ stk' # <<>>
           /\ stk'[Len(stk')].k = "Update"]_vars

(* The step is a broadcast to the list, in either form. *)
ListBroadcast == op' \in {"SendMsgBroadcastToList", "SendMsgBroadcastToListNow"}

(* The number of entries of a sequence equal to x. *)
Copies(q, x) == Cardinality({i \in 1..Len(q) : q[i] = x})

(* C31: a broadcast never delivers a copy to its sender:                   *)
(* SendMsgBroadcastNow(name, type) results in exactly one copy for each    *)
(* other agent of the type and none for the sender or for an agent of      *)
(* another type, and SendMsgBroadcastToList and SendMsgBroadcastToListNow  *)
(* send one copy for every list entry other than the sender and           *)
(* never to the sender, also when the sender's id is in the list.          *)
C31_BroadcastSkipsSender ==
    [][/\ op' = "SendMsgBroadcastNow" =>
             \A id \in AgentIds :
                Copies(dlv'.to, id) =
                    IF TypeOf(id) = dlv'.type /\ id # OwnerId THEN 1 ELSE 0
       /\ ListBroadcast =>
             /\ \A id \in AgentIds :
                   Copies(dlv'.to, id) =
                       IF id = OwnerId THEN 0 ELSE Copies(m.broadcastList, id)
             /\ dlv'.delay = IF op' = "SendMsgBroadcastToListNow" THEN 0
                              ELSE ONE_FRAME]_vars

(* A broadcast to a list that holds the sender's id and two other entries  *)
(* has just sent its copies.                                               *)
C31_Witness ==
    /\ op \in {"SendMsgBroadcastToList", "SendMsgBroadcastToListNow"}
    /\ Copies(m.broadcastList, OwnerId) = 1
    /\ Len(m.broadcastList) = 3
    /\ Len(dlv.to) = 2

(* The slots of a scope. *)
Slots(mch, scope) ==
    IF scope = "STATE_VARIABLE_SCOPE" THEN mch.stateVariables
    ELSE mch.substateVariables

(* C32: after DeclareVariable(id, scope) returns, slot id exists in that   *)
(* scope (id is smaller than the number of slots of the scope), for every  *)
(* id >= 0 and every order in which ids are declared, and declaring an id  *)
(* that already exists leaves the number of slots and every stored value   *)
(* unchanged.                                                              *)
C32_DeclaredSlotExists ==
    [][op' = "DeclareVariable" =>
           /\ dlv'.id < Len(Slots(m', dlv'.scope))
           /\ dlv'.id < Len(Slots(m, dlv'.scope)) => m' = m]_vars

(* C33: in every reachable state of a machine, no current substate        *)
(* implies that the machine has no substate-scoped variables, whatever     *)
(* DeclareVariable calls the handlers make.                                *)
C33_NoSubstateNoSubstateVariables ==
    m.currentSubstate = NO_SUBSTATE => m.substateVariables = <<>>

(* The frames of StateMachine::Update on the call stack. *)
UpdateFrames == {i \in 1..Len(stk) : stk[i].k = "Update"}

(* The step is a step of the ladder of StateMachine::Update that queries   *)
(* the transition function.                                                *)
UpdateQueried ==
    /\ Running("Update") /\ Top.pc \in {"sub", "state", "global"}
    /\ op' = "States"
    /\ Len(stk'[Len(stk)].q) > Len(Top.q)

(* C34: StateMachine::Update queries a level of the ladder with the Update *)
(* event only if that level's Update bit is set in registered_events (the  *)
(* substate level only when, in addition, a substate is current), stops at *)
(* the first level that handles it, and a machine whose registered_events  *)
(* holds no Update bit receives no Update dispatch at all.                 *)
C34_UpdateGated ==
    /\ [][/\ UpdateQueried =>
                /\ RegisteredBit("Update", Level(QueryOf(Top.pc).s, QueryOf(Top.pc).ss))
                       \in m.registeredEvents
                /\ Top.pc = "sub" => m.currentSubstate >= 0
          /\ op' = "Update" /\ m.registeredEvents \cap REGISTERED_EVENT_UPDATE = {} =>
                /\ last' = last
                /\ UpdateFrames' = UpdateFrames]_vars
    /\ [](\A i \in UpdateFrames : \A j \in 1..Len(stk[i].q) :
              stk[i].q[j].h => j = Len(stk[i].q) /\ stk[i].pc = "psc")

(* Update has been handled at the level of the substate and stopped there, *)
(* on a machine whose state also registered an Update handler.             *)
C34_Witness ==
    /\ Running("Update") /\ Top.pc = "psc"
    /\ Len(Top.q) = 1
    /\ Top.q[1].ss >= 0
    /\ Top.q[1].h
    /\ "UPDATE_STATE" \in m.registeredEvents

(* The queues whose top machine the step must reach. *)
Reached ==
    CASE op' = "ManagerProcess" /\ dlv'.queue \in QueueIds ->
             {q \in QueueIds : q = dlv'.queue /\ queues[q] # <<>>}
      [] op' = "ManagerProcess" /\ dlv'.queue # STATE_MACHINE_QUEUE_ALL -> {}
      [] OTHER -> {q \in QueueIds : queues[q] # <<>>}

PerformStateChangesReturns ==
    /\ Running("PSC") /\ Top.pc = "while"
    /\ op' = "PerformStateChangesLoop"
    /\ stk' = Rest

(* C36: whenever PerformStateChanges returns, no transition is pending on  *)
(* the machine (state_change is None) and change_allowed is true, for      *)
(* every sequence of requests made by Enter handlers during the call.      *)
C36_SettledOnReturn ==
    [][PerformStateChangesReturns =>
           /\ m'.stateChange = "NO_STATE_CHANGE"
           /\ m'.stateChangeAllowed]_vars

(* C36, as the code has it: whenever PerformStateChanges returns,          *)
(* change_allowed is true, and no transition is pending unless the call    *)
(* has used up its 20 iterations, when the request made by the Enter       *)
(* handler of the 20th iteration stays pending.                            *)
C36_SettledUnlessBoundHit ==
    [][PerformStateChangesReturns =>
           /\ m'.stateChangeAllowed
           /\ m'.stateChange # "NO_STATE_CHANGE" => Top.sc = 0]_vars

(* A call of PerformStateChanges that applied two transitions has just     *)
(* returned, with nothing pending.                                         *)
C36_Witness ==
    /\ op = "PerformStateChangesLoop" /\ ~Running("PSC")
    /\ m.scopeState = 2
    /\ m.stateChange = "NO_STATE_CHANGE"
    /\ m.stateChangeAllowed

(* C37: a State- or Substate-scoped self message is never dispatched to a  *)
(* machine instance other than the one that sent it, for every sequence of *)
(* Queue, Requeue, Push, Pop, Replace and Reset requests on the queue      *)
(* between the send and the delivery.                                      *)
C37_ScopedStaysWithSender ==
    [][/\ op' = "RouteMsg"
       /\ dlv'.rule \in {"SCOPE_TO_STATE", "SCOPE_TO_SUBSTATE"}
       /\ dlv'.dispatched
       => dlv'.top = dlv'.sender]_vars

(* The delivery of the scoped timer message that the router is about to    *)
(* finish has left the scope the message was sent in: the handler          *)
(* requested a transition and it has been applied.                         *)
TimerScopeLeft ==
    /\ Running("Router")
    /\ Top.by \in {"SCOPE_TO_STATE", "SCOPE_TO_SUBSTATE"}
    /\ ~ScopeValid(Top.q[1], m)

(* C38: if the handler of a State- or Substate-scoped timer message itself *)
(* requests a transition out of the timer's scope, the timer does not      *)
(* carry over: after that transition no further message with the timer's   *)
(* name is delivered to the machine unless a handler sets the timer again, *)
(* so the router schedules no copy that is valid in the new scope.         *)
C38_TimerEndsWithItsScope ==
    [][op' = "RearmTimer" /\ TimerScopeLeft =>
           \/ msgs' = msgs
           \/ ~ScopeValid(Back(msgs'), m')]_vars

(* The configuration of a machine that has just been constructed. *)
InitialConfiguration(mch) ==
    /\ mch.currentState = 0 /\ mch.currentSubstate = NO_SUBSTATE
    /\ mch.scopeState = 0 /\ mch.scopeSubstate = 0
    /\ mch.stack = <<>>
    /\ mch.stateVariables = <<>> /\ mch.substateVariables = <<>>
    /\ mch.broadcastList = <<>>
    /\ mch.ccMessagesToGameObject = 0
    /\ mch.stateChange = "NO_STATE_CHANGE"
    /\ mch.registeredEvents = {}

(* The step is the manager applying a reset request to the machine on top. *)
ResetApplied ==
    /\ Running("Manager") /\ Top.pc = "requests" /\ Top.sc > 0
    /\ mgrChange = "STATE_MACHINE_RESET" /\ list # <<>>
    /\ op' = "ProcessStateMachineChangeRequests"

(* What C39 says of the events: Reset dispatches Probe and then Enter for *)
(* the starting state.                                                     *)
ResetDispatches ==
    /\ op' = "ResetProbe" => last' = [ev |-> "Probe", s |-> 0, ss |-> NO_SUBSTATE]
    /\ op' = "ResetEnter" => last' = [ev |-> "Enter", s |-> 0, ss |-> NO_SUBSTATE]

(* C39: StateMachine::Reset restores the initial configuration (state 0,   *)
(* no substate, both scope counters 0, empty state stack, no state or      *)
(* substate variables, empty broadcast list, no CC receiver, no pending    *)
(* transition, registered_events cleared) and then dispatches Probe        *)
(* followed by Enter through the ladder for the starting state; it         *)
(* dispatches no Exit event for the state or substate that was current     *)
(* before the Reset.                                                       *)
C39_AsStated ==
    [][/\ ResetApplied =>
             /\ InitialConfiguration(m')
             /\ last' = last
             /\ stk'[Len(stk')].k = "Reset" /\ stk'[Len(stk')].pc = "probe"
       /\ ResetDispatches]_vars

(* C39, as the code has it: the same, except that the Probe and the Enter  *)
(* are dispatched only when the owner is not marked for deletion; for a    *)
(* marked owner Reset restores the initial configuration and dispatches    *)
(* nothing.                                                                *)
C39_ResetRestoresAndEnters ==
    [][/\ ResetApplied =>
             /\ InitialConfiguration(m')
             /\ last' = last
             /\ stk'[Len(stk')].k = "Reset" /\ stk'[Len(stk')].pc = "probe"
       /\ ~marked => ResetDispatches
       /\ marked /\ op' \in {"ResetProbe", "ResetEnter"} => last' = last]_vars

(* The manager has applied a reset request made after three other calls of *)
(* the handlers, and the Reset has just dispatched the Enter of the        *)
(* starting state.                                                         *)
C39_Witness ==
    /\ op = "ResetEnter"
    /\ stk[1].k = "Manager" /\ stk[1].name = "STATE_MACHINE_RESET"
    /\ calls = 0
    /\ last = [ev |-> "Enter", s |-> 0, ss |-> NO_SUBSTATE]
    /\ InitialConfiguration([m EXCEPT !.registeredEvents = {}])

(***************************************************************************)
(* C40: ProcessStateMachineChangeRequests applies at most 20 change        *)
(* requests in one call and then returns, even when every newly activated  *)
(* machine's Enter handler requests another change; a request made by the  *)
(* Enter handler of a machine activated during the call is applied in the  *)
(* same call, before the top machine is sent its Update event.             *)
(***************************************************************************)
ManagerFrames == {i \in 1..Len(stk) : stk[i].k = "Manager"}

(* A step of the loop that applies a request. *)
RequestApplied ==
    /\ op' = "ProcessStateMachineChangeRequests"
    /\ stk # <<>> /\ Top.k = "Manager" /\ Top.pc = "requests"
    /\ mgrChange # "NO_STATE_MACHINE_CHANGE"
    /\ mgrChange' = "NO_STATE_MACHINE_CHANGE"

(* The step of the manager's Update that sends the Update event. *)
UpdateSent == op' = "Update" /\ stk # <<>> /\ Top.k = "Manager"

(* At most 20 requests are applied, and with the count used up the loop    *)
(* is left for Update with the last request still pending.                 *)
C40_AtMostTwentyAndReturns ==
    /\ [](\A i \in ManagerFrames : stk[i].sc \in 0..SAFETY_COUNT)
    /\ [][/\ RequestApplied =>
               /\ Top.sc >= 1
               /\ stk'[Len(Rest) + 1].sc = Top.sc - 1
          /\ /\ op' = "ProcessStateMachineChangeRequests"
             /\ stk # <<>> /\ Top.k = "Manager" /\ Top.pc = "requests"
             /\ Top.sc = 0
             => /\ stk' = Append(Rest, [Top EXCEPT !.pc = "update"])
                /\ mgrChange' = mgrChange /\ list' = list]_vars

====
